---- MODULE Spec2Model ----
(***************************************************************************)
(* OV2710 image-sensor driver (drivers/media/i2c/ov2710.c): the device     *)
(* state machine (power, mode, streaming), its register bus accesses and   *)
(* its control handlers.                                                   *)
(*                                                                         *)
(* The driver's helpers are operators over a record `s` that holds the     *)
(* fields of struct ov2710_dev, the supplies/clock/reset line it owns, the *)
(* sensor's registers (hw), the bus transactions issued so far by the      *)
(* running call (bus) and the helper's return value (ret).  The inputs of  *)
(* a call that the environment decides travel in the same record: `fault`  *)
(* is the transfer or resource that fails, `oob` the value an              *)
(* out-of-bounds array read yields.                                        *)
(*                                                                         *)
(* The power sequences of the DSI-to-LVDS bridge (mipi_bridge_enable,      *)
(* mipi_bridge_disable) and of the panel (wuxga_drm_prepare,               *)
(* wuxga_drm_unprepare) are operators over a record `d` of the same kind;  *)
(* `pwr` logs the power resources a call switched, in order.  The table    *)
(* playbacks of the two (bridge_write_table, wuxga_write_table) log their  *)
(* transfers and their sleeps in `bus`, in order.                          *)
(***************************************************************************)
EXTENDS Integers, Sequences, FiniteSets, TLC

VARIABLES
  is_enabled,            \* sensor->is_enabled
  is_streaming,          \* sensor->is_streaming
  mode_pending_changes,  \* sensor->mode_pending_changes
  current_mode,          \* sensor->current_mode: "init", "720p" or "1080p"
  fmt,                   \* sensor->fmt: [width, height, code]
  ctrls,                 \* sensor->ctrls: value and is_new flag of each control
  supplies,              \* enable count of the DOVDD/DVDD/AVDD bulk
  xvclk,                 \* enable count of the xvclk clock
  reset_gpio,            \* "absent", or the reset line's logical value: "high", "low"
  hw,                    \* the sensor's registers the driver reads back
  lock,                  \* sensor->lock: "free", or the call that holds it
  waiters,               \* the callers that sleep in mutex_lock(&sensor->lock)
  power_pc,              \* position of an s_power(on) call after its unlock
  probed,                \* ov2710_probe has run
  last,                  \* the handler that ran last, with its arguments
  out,                   \* what it handed back (a format, a control value)
  ret,                   \* its return value
  bus,                   \* the bus transactions it issued, in order
  pwr,                   \* the power resources it switched, in order
  steps,                 \* the sensor's transfers, switches and sleeps, in order
  bridge,                \* struct bridge_data: its GPIOs and regulators
  panel                  \* struct wuxga_data: ldo-en GPIO, supply, prepared

devVars == <<is_enabled, is_streaming, mode_pending_changes, current_mode, fmt,
             ctrls, supplies, xvclk, reset_gpio, hw>>
dispVars == <<bridge, panel>>
vars == <<devVars, lock, waiters, power_pc, probed, last, out, ret, bus, pwr,
          steps, dispVars>>

----------------------------------------------------------------------------
\* Error numbers (the handlers return them negated).
EIO == 5
EBUSY == 16
EINVAL == 22

OV2710_REG_STREAM_CTRL == 12296         \* 0x3008
OV2710_REG_STREAM_CTRL_RESET == 128     \* BIT(7)
OV2710_REG_STREAM_CTRL_SLEEP == 64      \* BIT(6)
OV2710_REG_R_MANUAL == 13571            \* 0x3503
OV2710_REG_GAIN_PK == 13578             \* 0x350a
OV2710_REG_EXPOSURE_PK_HIGH == 13568    \* 0x3500
OV2710_REG_FORMAT1 == 14368             \* 0x3820
OV2710_REG_FORMAT2 == 14369             \* 0x3821
OV2710_REG_ISP_CTRL00 == 20608          \* 0x5080
OV2710_REG_VALUE_8BIT == 1
OV2710_REG_VALUE_16BIT == 2
OV2710_REG_VALUE_24BIT == 3

\* enum v4l2_exposure_auto_type, as the driver uses it.
V4L2_EXPOSURE_AUTO == 0
V4L2_EXPOSURE_MANUAL == 1

\* Register table of the 1280x720 mode, as <<reg_addr, val>> (hex in the source).
ov2710_setting_60fps_720P_1280_720 ==
  << <<12547, 147>>, <<12296, 130>>, <<12296, 66>>, <<12311, 127>>, <<12312, 252>>, <<14086, 97>>,
     <<14098, 12>>, <<13872, 109>>, <<14337, 180>>, <<13857, 4>>, <<13828, 96>>, <<13827, 167>>,
     <<13873, 38>>, <<13824, 4>>, <<13856, 55>>, <<13859, 0>>, <<14082, 158>>, <<14083, 92>>,
     <<14084, 64>>, <<14093, 15>>, <<14099, 159>>, <<14100, 76>>, <<14096, 158>>, <<14337, 196>>,
     <<13829, 5>>, <<13830, 63>>, <<12333, 144>>, <<14091, 64>>, <<14102, 49>>, <<14087, 82>>,
     <<14349, 116>>, <<20865, 32>>, <<20879, 0>>, <<17153, 255>>, <<17155, 0>>, <<14848, 120>>,
     <<12303, 136>>, <<12305, 40>>, <<14874, 6>>, <<14872, 0>>, <<14873, 122>>, <<14867, 84>>,
     <<14382, 15>>, <<14362, 26>>, <<16413, 2>>, <<14364, 16>>, <<14365, 176>>, <<14366, 2>>,
     <<14367, 236>>, <<14336, 1>>, <<14368, 10>>, <<14369, 42>>, <<14340, 5>>, <<14341, 16>>,
     <<14338, 0>>, <<14339, 4>>, <<14342, 2>>, <<14343, 224>>, <<14344, 5>>, <<14345, 16>>,
     <<14346, 2>>, <<14347, 224>>, <<14350, 2>>, <<14351, 240>>, <<14348, 7>>, <<14349, 0>>,
     <<14352, 16>>, <<14353, 6>>, <<22152, 3>>, <<22148, 5>>, <<22149, 0>>, <<22150, 2>>,
     <<22151, 208>>, <<14856, 27>>, <<14857, 230>>, <<14858, 23>>, <<14859, 64>>, <<14862, 1>>,
     <<14861, 2>>, <<12305, 10>>, <<12303, 138>>, <<12311, 0>>, <<12312, 0>>, <<18432, 36>>,
     <<12302, 4>>, <<18433, 15>>, <<12303, 195>>, <<14863, 64>>, <<14864, 56>>, <<14875, 72>>,
     <<14878, 48>>, <<14865, 144>>, <<14879, 16>>, <<12304, 16>>, <<14862, 2>>, <<14861, 3>>,
     <<14856, 13>>, <<14857, 243>>, <<14858, 11>>, <<14859, 160>>, <<12303, 195>>, <<12305, 14>>,
     <<12306, 2>>, <<14348, 7>>, <<14349, 106>>, <<14083, 92>>, <<14084, 64>>, <<14337, 188>>,
     <<13571, 23>>, <<13568, 0>>, <<13569, 0>>, <<13570, 0>>, <<13578, 0>>, <<13579, 0>>,
     <<20481, 78>>, <<20480, 95>>, <<12296, 2>> >>

\* Register table of the 1920x1080 mode.
ov2710_setting_30fps_HD_1920_1080 ==
  << <<12547, 147>>, <<12296, 130>>, <<12296, 66>>, <<12311, 127>>, <<12312, 252>>, <<14086, 97>>,
     <<14098, 12>>, <<13872, 109>>, <<14337, 180>>, <<13857, 4>>, <<13828, 96>>, <<13827, 167>>,
     <<13873, 38>>, <<13824, 4>>, <<13856, 55>>, <<13859, 0>>, <<14082, 158>>, <<14083, 92>>,
     <<14084, 64>>, <<14093, 15>>, <<14099, 159>>, <<14100, 76>>, <<14096, 158>>, <<14337, 196>>,
     <<13829, 5>>, <<13830, 63>>, <<12333, 144>>, <<14091, 64>>, <<14102, 49>>, <<14087, 82>>,
     <<14349, 116>>, <<20865, 32>>, <<20879, 0>>, <<17153, 255>>, <<17155, 0>>, <<14848, 120>>,
     <<12303, 136>>, <<12305, 40>>, <<14874, 6>>, <<14872, 0>>, <<14873, 122>>, <<14867, 84>>,
     <<14382, 15>>, <<14362, 26>>, <<16413, 2>>, <<14364, 0>>, <<14365, 2>>, <<14366, 4>>,
     <<14367, 56>>, <<14368, 0>>, <<14369, 152>>, <<14336, 1>>, <<14338, 0>>, <<14339, 10>>,
     <<14340, 7>>, <<14341, 144>>, <<14342, 4>>, <<14343, 64>>, <<14344, 7>>, <<14345, 144>>,
     <<14346, 4>>, <<14347, 64>>, <<14350, 4>>, <<14351, 80>>, <<14348, 9>>, <<14349, 116>>,
     <<14352, 8>>, <<14353, 2>>, <<22152, 3>>, <<22148, 7>>, <<22149, 160>>, <<22150, 4>>,
     <<22151, 67>>, <<12305, 10>>, <<12303, 138>>, <<12311, 0>>, <<12312, 0>>, <<18432, 36>>,
     <<12302, 4>>, <<18433, 15>>, <<12303, 195>>, <<12304, 0>>, <<12305, 10>>, <<12306, 1>>,
     <<14863, 64>>, <<14864, 56>>, <<14875, 72>>, <<14878, 48>>, <<14865, 144>>, <<14879, 16>>,
     <<14862, 3>>, <<14861, 4>>, <<14856, 20>>, <<14857, 192>>, <<14858, 17>>, <<14859, 64>>,
     <<12303, 195>>, <<12304, 0>>, <<12305, 14>>, <<12306, 2>>, <<14348, 9>>, <<14349, 236>>,
     <<14083, 97>>, <<14084, 68>>, <<14337, 210>>, <<13571, 23>>, <<13568, 0>>, <<13569, 0>>,
     <<13570, 0>>, <<13578, 0>>, <<13579, 0>>, <<20481, 78>>, <<20480, 95>>, <<12296, 2>> >>

----------------------------------------------------------------------------
\* The mode the probe selects (a struct of its own, with the 1080p table).
ov2710_mode_init_data ==
  [name |-> "init", width |-> 1920, height |-> 1080,
   reg_data |-> ov2710_setting_30fps_HD_1920_1080]

Mode720p ==
  [name |-> "720p", width |-> 1280, height |-> 720,
   reg_data |-> ov2710_setting_60fps_720P_1280_720]

\* The catalog's second entry names its table ..._1920_1090 in the source; the
\* only 1080p table the file defines is ..._1920_1080.
Mode1080p ==
  [name |-> "1080p", width |-> 1920, height |-> 1080,
   reg_data |-> ov2710_setting_30fps_HD_1920_1080]

\* The catalog with its two entries in the other order.
mode_data_reversed == <<Mode1080p, Mode720p>>

ov2710_mode_data == <<Mode720p, Mode1080p>>

ModeNames == {"init", "720p", "1080p"}

\* Dereference of sensor->current_mode.
ModeOf(name) ==
  IF name = "init" THEN ov2710_mode_init_data
  ELSE IF name = "720p" THEN Mode720p ELSE Mode1080p

ov2710_hv_flip_bayer_order == <<"SBGGR10", "SGRBG10", "SGBRG10", "SRGGB10">>

----------------------------------------------------------------------------
\* C's sequencing of calls on the record of a call.

\* ret = f(...); if (ret < 0) return ret; and then the rest.
Bind(r, Op(_)) == IF r.ret < 0 THEN r ELSE Op(r)

\* ret = f(...); if (ret) return ret; and then the rest.
BindNz(r, Op(_)) == IF r.ret # 0 THEN r ELSE Op(r)

\* The rest, whatever f returned.
Let(r, Op(_)) == Op(r)

----------------------------------------------------------------------------
\* Bit arithmetic on non-negative integers.
RECURSIVE BitAnd(_, _)
BitAnd(a, b) ==
  IF a = 0 \/ b = 0 THEN 0
  ELSE (a % 2) * (b % 2) + 2 * BitAnd(a \div 2, b \div 2)

BitOr(a, b) == a + b - BitAnd(a, b)

\* C's ~ on an integer, as two's complement.
BitNot(a) == -a - 1

BIT(n) == 2 ^ n

Pow256(n) == 256 ^ n

----------------------------------------------------------------------------
\* The sensor's registers that the driver reads back.
HwRegs ==
  { OV2710_REG_R_MANUAL, OV2710_REG_GAIN_PK, OV2710_REG_GAIN_PK + 1,
    OV2710_REG_EXPOSURE_PK_HIGH, OV2710_REG_EXPOSURE_PK_HIGH + 1,
    OV2710_REG_EXPOSURE_PK_HIGH + 2, OV2710_REG_FORMAT1, OV2710_REG_FORMAT2,
    OV2710_REG_ISP_CTRL00 }

\* Register contents of a sensor that has just got power.
HwDefault == [r \in HwRegs |-> 0]

\* A write of len bytes at reg, most significant byte first.
HwStore(h, reg, len, wire) ==
  [r \in HwRegs |->
     IF r >= reg /\ r < reg + len
     THEN (wire \div Pow256(len - 1 - (r - reg))) % 256
     ELSE h[r]]

HwByte(h, r) == IF r \in HwRegs THEN h[r] ELSE 0

\* A read of len bytes at reg, most significant byte first.
RECURSIVE HwLoad(_, _, _)
HwLoad(h, reg, len) ==
  IF len = 0 THEN 0
  ELSE HwLoad(h, reg, len - 1) * 256 + HwByte(h, reg + len - 1)

\* The failure the environment injects into a call: <<kind, reg, len, val>>.
\* kind "W"/"R" fails every transfer of that direction, register and length
\* (and value, unless val is -1); "regulator" and "clk" fail the enable of
\* the supplies and of the clock.
NoFault == <<"none", 0, 0, 0>>

Matches(f, dir, reg, len, val) ==
  f[1] = dir /\ f[2] = reg /\ f[3] = len /\ (f[4] = val \/ f[4] = -1)

\* A write helper that cuts a length above 4 down to 4 bytes.
write_reg_truncating(s, reg, len, val) ==
  LET n == IF len > 4 THEN 4 ELSE len
      wire == IF n < 4 THEN val % Pow256(n) ELSE val
      ok == ~Matches(s.fault, "W", reg, n, wire)
  IN [s EXCEPT !.bus = Append(@, <<"W", reg, n, wire, ok>>),
               !.steps = Append(@, <<"W", reg, wire, ok>>),
               !.hw = IF ok THEN HwStore(@, reg, n, wire) ELSE @,
               !.ret = IF ok THEN 0 ELSE -EIO]

__ov2710_write_reg(s, reg, len, val) ==
  IF len > 4 THEN [s EXCEPT !.ret = -EINVAL]
  ELSE
    \* buf + 2 holds val << (8 * (4 - len)) as a big-endian u32, and its
    \* first len bytes are sent: the low len bytes of val.
    LET wire == IF len < 4 THEN val % Pow256(len) ELSE val
        ok == ~Matches(s.fault, "W", reg, len, wire)
    IN [s EXCEPT !.bus = Append(@, <<"W", reg, len, wire, ok>>),
                 !.steps = Append(@, <<"W", reg, wire, ok>>),
                 !.hw = IF ok THEN HwStore(@, reg, len, wire) ELSE @,
                 !.ret = IF ok THEN 0 ELSE -EIO]

ov2710_write_reg(s, r, v) == __ov2710_write_reg(s, r, OV2710_REG_VALUE_8BIT, v)
ov2710_write_reg16(s, r, v) == __ov2710_write_reg(s, r, OV2710_REG_VALUE_16BIT, v)
ov2710_write_reg24(s, r, v) == __ov2710_write_reg(s, r, OV2710_REG_VALUE_24BIT, v)

\* The value read is left in the field rval.
__ov2710_read_reg(s, reg, len) ==
  IF len > 4 THEN [s EXCEPT !.ret = -EINVAL]
  ELSE
    LET ok == ~Matches(s.fault, "R", reg, len, -1)
        v == HwLoad(s.hw, reg, len)
    IN [s EXCEPT !.bus = Append(@, <<"R", reg, len, IF ok THEN v ELSE 0, ok>>),
                 !.steps = Append(@, <<"R", reg, IF ok THEN v ELSE 0, ok>>),
                 !.rval = IF ok THEN v ELSE @,
                 !.ret = IF ok THEN 0 ELSE -EIO]

ov2710_read_reg(s, r) == __ov2710_read_reg(s, r, OV2710_REG_VALUE_8BIT)
ov2710_read_reg16(s, r) == __ov2710_read_reg(s, r, OV2710_REG_VALUE_16BIT)
ov2710_read_reg24(s, r) == __ov2710_read_reg(s, r, OV2710_REG_VALUE_24BIT)

\* A read-modify-write that does not cut val down to the mask.
mod_reg_unmasked_val(s, reg, mask, val) ==
  Bind(ov2710_read_reg(s, reg),
       LAMBDA r : ov2710_write_reg(r, reg,
                    BitOr(val, r.rval - BitAnd(r.rval, mask)) % 256))

ov2710_mod_reg(s, reg, mask, val) ==
  Bind(ov2710_read_reg(s, reg),
       LAMBDA r : ov2710_write_reg(r, reg,
                    BitOr(BitAnd(val, mask), r.rval - BitAnd(r.rval, mask)) % 256))

\* Index of the least element of a non-empty set of numbers, and of the
\* greatest.
Least(S) == CHOOSE i \in S : \A j \in S : i <= j
Greatest(S) == CHOOSE i \in S : \A j \in S : i >= j

\* The loop of ov2710_load_regs, in closed form: entry i is written with
\* ov2710_write_reg(sensor, reg_addr, val) for i = 1, 2, ... and the first
\* write that fails ends the loop with its error.  `stop` is the index of that
\* write (0: none fails), every entry up to it is put on the bus, and a
\* register holds the value of the last successful write to it.
ov2710_load_regs(s, mode) ==
  LET regs == mode.reg_data
      bad == IF s.fault[1] = "W" /\ s.fault[3] = OV2710_REG_VALUE_8BIT
             THEN {i \in 1..Len(regs) :
                     Matches(s.fault, "W", regs[i][1], OV2710_REG_VALUE_8BIT,
                             regs[i][2])}
             ELSE {}
      stop == IF bad = {} THEN 0 ELSE Least(bad)
      n == IF stop = 0 THEN Len(regs) ELSE stop
      written == IF stop = 0 THEN Len(regs) ELSE stop - 1
  IN [s EXCEPT
        !.bus = @ \o [i \in 1..n |->
                        <<"W", regs[i][1], OV2710_REG_VALUE_8BIT, regs[i][2],
                          i # stop>>],
        !.steps = @ \o [i \in 1..n |->
                          <<"W", regs[i][1], regs[i][2], i # stop>>],
        !.hw = [r \in HwRegs |->
                  LET W == {i \in 1..written : regs[i][1] = r}
                  IN IF W = {} THEN @[r] ELSE regs[Greatest(W)][2]],
        !.ret = IF stop = 0 THEN 0 ELSE -EIO]

----------------------------------------------------------------------------
\* Power resources.

\* The calling thread sleeps between min and max microseconds.
usleep_range(s, min, max) ==
  [s EXCEPT !.steps = Append(@, <<"usleep_range", min, max, TRUE>>)]

\* Releases the reset line and waits (nothing without one).
ov2710_power_up(s) ==
  IF s.reset_gpio = "absent" THEN s
  ELSE usleep_range(
         [s EXCEPT !.reset_gpio = "low", !.pwr = Append(@, <<"reset_gpio", 0>>),
                   !.steps = Append(@, <<"reset_gpio", 0, 0, TRUE>>)],
         5000, 10000)

\* Asserts the reset line, which resets the sensor's registers.
ov2710_power_down(s) ==
  IF s.reset_gpio = "absent" THEN s
  ELSE usleep_range(
         [s EXCEPT !.reset_gpio = "high", !.hw = HwDefault,
                   !.pwr = Append(@, <<"reset_gpio", 1>>),
                   !.steps = Append(@, <<"reset_gpio", 1, 0, TRUE>>)],
         5000, 10000)

\* All three supplies are enabled, or on a failure none is left enabled.
regulator_bulk_enable(s) ==
  IF s.fault[1] = "regulator" THEN [s EXCEPT !.ret = -EIO]
  ELSE [s EXCEPT !.supplies = @ + 1, !.pwr = Append(@, <<"supplies", 1>>),
                 !.steps = Append(@, <<"supplies", 1, 0, TRUE>>),
                 !.ret = 0]

regulator_bulk_disable(s) ==
  [s EXCEPT !.supplies = IF @ > 0 THEN @ - 1 ELSE 0,
            !.hw = IF s.supplies <= 1 THEN HwDefault ELSE @,
            !.pwr = Append(@, <<"supplies", 0>>),
            !.steps = Append(@, <<"supplies", 0, 0, TRUE>>)]

clk_prepare_enable(s) ==
  IF s.fault[1] = "clk" THEN [s EXCEPT !.ret = -EIO]
  ELSE [s EXCEPT !.xvclk = @ + 1, !.pwr = Append(@, <<"xvclk", 1>>),
                 !.steps = Append(@, <<"xvclk", 1, 0, TRUE>>),
                 !.ret = 0]

clk_disable_unprepare(s) ==
  [s EXCEPT !.xvclk = IF @ > 0 THEN @ - 1 ELSE 0,
            !.pwr = Append(@, <<"xvclk", 0>>),
            !.steps = Append(@, <<"xvclk", 0, 0, TRUE>>)]

----------------------------------------------------------------------------
\* Flip, test pattern, gain and exposure.

\* ov2710_hv_flip_bayer_order[hv_flip] for the two register values read. The
\* index is (format2 & (BIT(2) << 1)) | (format1 & BIT(2)), as C parses the
\* expression; outside the 4-entry table the read yields oob.
hv_flip(format1, format2) ==
  BitOr(BitAnd(format2, BIT(2) * 2), BitAnd(format1, BIT(2)))

bayer_code(format1, format2, oob) ==
  IF hv_flip(format1, format2) < Len(ov2710_hv_flip_bayer_order)
  THEN ov2710_hv_flip_bayer_order[hv_flip(format1, format2) + 1]
  ELSE oob

ov2710_bayer_order(s) ==
  Bind(ov2710_read_reg(s, OV2710_REG_FORMAT1), LAMBDA r1 :
    Bind(ov2710_read_reg(r1, OV2710_REG_FORMAT2), LAMBDA r2 :
      [r2 EXCEPT !.fmt.code = bayer_code(r1.rval, r2.rval, r2.oob), !.ret = 0]))

flip_set(s, reg, val) ==
  Bind(ov2710_mod_reg(s, reg, BIT(2), val), LAMBDA r : ov2710_bayer_order(r))

ov2710_vflip_enable(s) == flip_set(s, OV2710_REG_FORMAT1, BIT(2))
ov2710_vflip_disable(s) == flip_set(s, OV2710_REG_FORMAT1, BIT(0))
ov2710_hflip_enable(s) == flip_set(s, OV2710_REG_FORMAT2, BIT(2))
ov2710_hflip_disable(s) == flip_set(s, OV2710_REG_FORMAT2, BIT(0))

ov2710_test_pattern_set(s, value) ==
  IF value = 0 THEN ov2710_mod_reg(s, OV2710_REG_ISP_CTRL00, BIT(7), 0)
  ELSE
    Bind(Bind(ov2710_mod_reg(s, OV2710_REG_ISP_CTRL00, 3, value - 1),
              LAMBDA r : ov2710_mod_reg(r, OV2710_REG_ISP_CTRL00, BIT(7), BIT(7))),
         LAMBDA q : [q EXCEPT !.ret = 0])

\* The result of the gain value write is dropped: the helper returns 0.
\* A gain helper that writes the gain whether or not it is new.
gain_set_always_writes(s, auto_gain) ==
  Bind(ov2710_mod_reg(s, OV2710_REG_R_MANUAL, BIT(1),
                      IF auto_gain THEN 0 ELSE BIT(1)),
       LAMBDA r :
         IF auto_gain THEN [r EXCEPT !.ret = 0]
         ELSE [ov2710_write_reg16(r, OV2710_REG_GAIN_PK, r.ctrls.gain)
               EXCEPT !.ret = 0])

ov2710_gain_set(s, auto_gain) ==
  Bind(ov2710_mod_reg(s, OV2710_REG_R_MANUAL, BIT(1),
                      IF auto_gain THEN 0 ELSE BIT(1)),
       LAMBDA r :
         IF auto_gain \/ ~r.ctrls.gain_is_new THEN [r EXCEPT !.ret = 0]
         ELSE [ov2710_write_reg16(r, OV2710_REG_GAIN_PK, r.ctrls.gain)
               EXCEPT !.ret = 0])

\* A gain read-back that fetches the low byte of the gain only.
gain_get_low_byte(s) ==
  BindNz(ov2710_read_reg(s, OV2710_REG_GAIN_PK + 1),
         LAMBDA r : [r EXCEPT !.ret = r.rval])

\* Returns the gain, or the negative error, in ret.
ov2710_gain_get(s) ==
  BindNz(ov2710_read_reg16(s, OV2710_REG_GAIN_PK),
         LAMBDA r : [r EXCEPT !.ret = r.rval])

ov2710_exposure_set(s, auto_exp) ==
  Bind(ov2710_mod_reg(s, OV2710_REG_R_MANUAL, BIT(0),
                      IF auto_exp THEN 0 ELSE BIT(0)),
       LAMBDA r :
         IF auto_exp \/ ~r.ctrls.exposure_is_new THEN [r EXCEPT !.ret = 0]
         ELSE ov2710_write_reg24(r, OV2710_REG_EXPOSURE_PK_HIGH,
                                 r.ctrls.exposure * 16))

ov2710_exposure_get(s) ==
  BindNz(ov2710_read_reg24(s, OV2710_REG_EXPOSURE_PK_HIGH),
         LAMBDA r : [r EXCEPT !.ret = r.rval \div 16])

----------------------------------------------------------------------------
\* Streaming, mode commit and power.

\* The value is ~OV2710_REG_STREAM_CTRL_SLEEP, of which the 8-bit write keeps
\* the low byte.
ov2710_stream_enable(s) ==
  ov2710_write_reg(s, OV2710_REG_STREAM_CTRL, BitNot(OV2710_REG_STREAM_CTRL_SLEEP))

ov2710_stream_disable(s) ==
  ov2710_write_reg(s, OV2710_REG_STREAM_CTRL, OV2710_REG_STREAM_CTRL_SLEEP)

\* A mode commit that puts gain and exposure back to automatic whatever the
\* controls say.
mode_set_restores_both(s) ==
  Bind(Bind(Bind(Bind(Bind(
    ov2710_gain_set(s, FALSE),
    LAMBDA g : ov2710_exposure_set(g, FALSE)),
    LAMBDA e : ov2710_load_regs(e, ModeOf(e.current_mode))),
    LAMBDA l : ov2710_gain_set(l, TRUE)),
    LAMBDA ag : ov2710_exposure_set(ag, TRUE)),
    LAMBDA ae : [ae EXCEPT !.mode_pending_changes = FALSE, !.ret = 0])

\* A mode commit that clears the pending flag before it writes anything.
mode_set_clears_first(s) ==
  Bind(Bind(Bind(Bind(
    ov2710_gain_set([s EXCEPT !.mode_pending_changes = FALSE], FALSE),
    LAMBDA g : ov2710_exposure_set(g, FALSE)),
    LAMBDA e : ov2710_load_regs(e, ModeOf(e.current_mode))),
    LAMBDA l : IF l.ctrls.auto_gain # 0 THEN ov2710_gain_set(l, TRUE) ELSE l),
    LAMBDA ag : IF ag.ctrls.auto_exp = V4L2_EXPOSURE_AUTO
                THEN ov2710_exposure_set(ag, TRUE) ELSE ag)

ov2710_mode_set(s) ==
  Bind(Bind(Bind(Bind(Bind(
    ov2710_gain_set(s, FALSE),
    LAMBDA g : ov2710_exposure_set(g, FALSE)),
    LAMBDA e : ov2710_load_regs(e, ModeOf(e.current_mode))),
    LAMBDA l : IF l.ctrls.auto_gain # 0 THEN ov2710_gain_set(l, TRUE) ELSE l),
    LAMBDA ag : IF ag.ctrls.auto_exp = V4L2_EXPOSURE_AUTO
                THEN ov2710_exposure_set(ag, TRUE) ELSE ag),
    LAMBDA ae : [ae EXCEPT !.mode_pending_changes = FALSE, !.ret = 0])

ov2710_mode_restore(s) ==
  Bind(ov2710_load_regs(s, ov2710_mode_init_data),
       LAMBDA l : ov2710_mode_set(l))

ov2710_power_off(s) ==
  IF ~s.is_enabled THEN [s EXCEPT !.ret = 0]
  ELSE [regulator_bulk_disable(ov2710_power_down(clk_disable_unprepare(s)))
          EXCEPT !.is_enabled = FALSE, !.ret = 0]

\* A power-on that resets by register write whether or not the board has a
\* reset line.
power_on_soft_reset_always(s) ==
  IF s.is_enabled THEN [s EXCEPT !.ret = 0]
  ELSE
    Bind(BindNz(Bind(
      regulator_bulk_enable(s),
      LAMBDA r : BindNz(ov2710_write_reg(r, OV2710_REG_STREAM_CTRL,
                                         OV2710_REG_STREAM_CTRL_RESET),
                        LAMBDA w : usleep_range(w, 1000, 2000))),
      LAMBDA x : clk_prepare_enable(x)),
      LAMBDA c : [ov2710_stream_disable(usleep_range(
                    ov2710_stream_enable([c EXCEPT !.is_enabled = TRUE]),
                    1000, 2000))
                  EXCEPT !.ret = 0])

ov2710_power_on(s) ==
  IF s.is_enabled THEN [s EXCEPT !.ret = 0]
  ELSE
    Bind(BindNz(Bind(
      regulator_bulk_enable(s),
      LAMBDA r : IF r.reset_gpio = "absent"
                 THEN BindNz(ov2710_write_reg(r, OV2710_REG_STREAM_CTRL,
                                              OV2710_REG_STREAM_CTRL_RESET),
                             LAMBDA w : usleep_range(w, 1000, 2000))
                 ELSE [ov2710_power_up(ov2710_power_down(r)) EXCEPT !.ret = 0]),
      LAMBDA x : clk_prepare_enable(x)),
      \* the LP-11 writes: their results are not looked at
      LAMBDA c : [ov2710_stream_disable(usleep_range(
                    ov2710_stream_enable([c EXCEPT !.is_enabled = TRUE]),
                    1000, 2000))
                  EXCEPT !.ret = 0])

----------------------------------------------------------------------------
\* What a handler hands back to its caller besides its return value: a format
\* (set_fmt) or a control value (get_control).
NoOut == [width |-> 0, height |-> 0, code |-> "", val |-> 0]

\* Control handlers.  A control is named by the field of struct ov2710_ctrls.

CtrlIds == {"vflip", "hflip", "test_pattern", "auto_exp", "exposure",
            "auto_gain", "gain"}

\* A read-back handler that does not look at is_enabled.
g_volatile_unchecked(s, id) ==
  IF id = "gain" THEN
    Bind(ov2710_gain_get(s),
         LAMBDA r : [r EXCEPT !.ctrls.gain = r.ret, !.ret = 0])
  ELSE
    Bind(ov2710_exposure_get(s),
         LAMBDA r : [r EXCEPT !.ctrls.exposure = r.ret, !.ret = 0])

ov2710_g_volatile_ctrl(s, id) ==
  IF ~s.is_enabled THEN [s EXCEPT !.ret = 0]
  ELSE IF id = "gain" THEN
    Bind(ov2710_gain_get(s),
         LAMBDA r : [r EXCEPT !.ctrls.gain = r.ret, !.ret = 0])
  ELSE IF id = "exposure" THEN
    Bind(ov2710_exposure_get(s),
         LAMBDA r : [r EXCEPT !.ctrls.exposure = r.ret, !.ret = 0])
  ELSE [s EXCEPT !.ret = 0]

ov2710_s_ctrl(s, id) ==
  IF ~s.is_enabled THEN [s EXCEPT !.ret = 0]
  ELSE IF id = "auto_gain" THEN ov2710_gain_set(s, s.ctrls.auto_gain # 0)
  ELSE IF id = "gain" THEN ov2710_gain_set(s, s.ctrls.auto_gain # 0)
  ELSE IF id = "auto_exp" THEN ov2710_exposure_set(s, s.ctrls.auto_exp # 0)
  ELSE IF id = "exposure" THEN ov2710_exposure_set(s, s.ctrls.auto_exp # 0)
  ELSE IF id = "vflip" THEN
    IF s.is_streaming THEN [s EXCEPT !.ret = -EBUSY]
    ELSE IF s.ctrls.vflip # 0 THEN ov2710_vflip_enable(s)
    ELSE ov2710_vflip_disable(s)
  ELSE IF id = "hflip" THEN
    IF s.is_streaming THEN [s EXCEPT !.ret = -EBUSY]
    ELSE IF s.ctrls.hflip # 0 THEN ov2710_hflip_enable(s)
    ELSE ov2710_hflip_disable(s)
  ELSE IF id = "test_pattern" THEN ov2710_test_pattern_set(s, s.ctrls.test_pattern)
  ELSE [s EXCEPT !.ret = -EINVAL]

\* The control framework's set: it stores the new value, marks that control of
\* its cluster new, and calls the handler; a failed set leaves the value as
\* it was.
set_control(s, id, v) ==
  Let(ov2710_s_ctrl(
        [s EXCEPT !.ctrls[id] = v,
                  !.ctrls.gain_is_new = IF id \in {"auto_gain", "gain"}
                                        THEN id = "gain" ELSE @,
                  !.ctrls.exposure_is_new = IF id \in {"auto_exp", "exposure"}
                                            THEN id = "exposure" ELSE @],
        id),
      LAMBDA r : IF r.ret < 0 THEN [r EXCEPT !.ctrls[id] = s.ctrls[id]] ELSE r)

\* The control framework's get of a volatile control.
get_control(s, id) ==
  Bind(ov2710_g_volatile_ctrl(s, id),
       LAMBDA r : [r EXCEPT !.out = [NoOut EXCEPT !.val = r.ctrls[id]]])

\* The handler is called for every control (a cluster through its first
\* control) in the order of registration, every value marked new, until one
\* call fails.
SetupOrder == <<"vflip", "hflip", "test_pattern", "auto_exp", "auto_gain">>

RECURSIVE handler_setup_from(_, _)
handler_setup_from(s, i) ==
  IF i > Len(SetupOrder) THEN [s EXCEPT !.ret = 0]
  ELSE Bind(ov2710_s_ctrl(s, SetupOrder[i]),
            LAMBDA r : handler_setup_from(r, i + 1))

v4l2_ctrl_handler_setup(s) ==
  handler_setup_from([s EXCEPT !.ctrls.gain_is_new = TRUE,
                               !.ctrls.exposure_is_new = TRUE], 1)

----------------------------------------------------------------------------
\* Subdev operations.

\* The part of s_power that runs under sensor->lock.
s_power_locked(s, on) ==
  IF on THEN ov2710_power_on(s) ELSE ov2710_power_off(s)

\* The part of s_power(on) that runs after mutex_unlock.
s_power_unlocked(s) ==
  Bind(v4l2_ctrl_handler_setup(s), LAMBDA c : ov2710_mode_restore(c))

ov2710_s_power(s, on) ==
  Let(s_power_locked(s, on),
      LAMBDA r : IF on /\ r.ret = 0 THEN s_power_unlocked(r) ELSE r)

\* s_stream, lines 660-664: a start commits the pending mode first.
\* A stream start that commits nothing.
s_stream_no_commit(s, enable) == [s EXCEPT !.ret = 0]

s_stream_commit(s, enable) ==
  IF enable /\ s.mode_pending_changes
  THEN ov2710_mode_set(s) ELSE [s EXCEPT !.ret = 0]

\* s_stream, lines 666-671: the stream-control write, whose result is handed
\* back, and the flag, which is set whatever the write returned.
s_stream_switch(s, enable) ==
  [(IF enable THEN ov2710_stream_enable(s) ELSE ov2710_stream_disable(s))
   EXCEPT !.is_streaming = enable]

\* A stream call without the early return.
s_stream_always(s, enable) ==
  Bind(s_stream_commit(s, enable), LAMBDA m : s_stream_switch(m, enable))

ov2710_s_stream(s, enable) ==
  IF s.is_streaming = enable THEN [s EXCEPT !.ret = 0]
  ELSE Bind(s_stream_commit(s, enable), LAMBDA m : s_stream_switch(m, enable))

Abs(x) == IF x < 0 THEN -x ELSE x

SizeError(e, width, height) == Abs(e.width - width) + Abs(e.height - height)

\* Index of the entry nearest to width x height: the summed absolute
\* difference is minimal, and of equally near entries the first is taken.
v4l2_find_nearest_size(array, width, height) ==
  CHOOSE i \in 1..Len(array) :
    /\ \A j \in 1..Len(array) :
         SizeError(array[i], width, height) <= SizeError(array[j], width, height)
    /\ \A j \in 1..(i - 1) :
         SizeError(array[j], width, height) > SizeError(array[i], width, height)

\* set_fmt once the mode is found, lines 753-770.
set_fmt_store(s, format, mode) ==
  IF format.which = "TRY" THEN [s EXCEPT !.ret = 0]
  ELSE [s EXCEPT !.current_mode = mode.name,
                 !.fmt = [width |-> mode.width, height |-> mode.height,
                          code |-> s.fmt.code],
                 !.out = [NoOut EXCEPT !.width = mode.width,
                                       !.height = mode.height,
                                       !.code = s.fmt.code],
                 !.mode_pending_changes = TRUE,
                 !.ret = 0]

\* set_fmt past its checks, lines 746-770. format is the caller's struct
\* v4l2_subdev_format: [pad, which, width, height]; the format handed back is
\* left in the field out.
set_fmt_apply(s, format) ==
  set_fmt_store(s, format,
                ov2710_mode_data[
                  v4l2_find_nearest_size(ov2710_mode_data, format.width,
                                         format.height)])

\* A set_fmt without the streaming check.
set_fmt_unchecked(s, format) ==
  IF format.pad # 0 THEN [s EXCEPT !.ret = -EINVAL]
  ELSE set_fmt_apply(s, format)

ov2710_set_fmt(s, format) ==
  IF format.pad # 0 THEN [s EXCEPT !.ret = -EINVAL]
  ELSE IF s.is_streaming THEN [s EXCEPT !.ret = -EBUSY]
  ELSE set_fmt_apply(s, format)

\* The active format is handed back; a try format is kept by the framework,
\* in a build with the sub-device API (api), and is -EINVAL in one without.
ov2710_get_fmt(s, format, api) ==
  IF format.pad # 0 THEN [s EXCEPT !.ret = -EINVAL]
  ELSE IF format.which = "TRY"
  THEN [s EXCEPT !.ret = IF api THEN 0 ELSE -EINVAL]
  ELSE [s EXCEPT !.out = [NoOut EXCEPT !.width = s.fmt.width,
                                       !.height = s.fmt.height,
                                       !.code = s.fmt.code],
                 !.ret = 0]

ov2710_s_g_frame_interval(s) == [s EXCEPT !.ret = 0]

ov2710_suspend(s) ==
  [(IF s.is_streaming THEN ov2710_stream_disable(s) ELSE s) EXCEPT !.ret = 0]

\* A resume that keeps the streaming flag and hides the failed write.
resume_swallows(s) ==
  IF ~s.is_streaming THEN [s EXCEPT !.ret = 0]
  ELSE [ov2710_stream_enable(s) EXCEPT !.ret = 0]

ov2710_resume(s) ==
  IF ~s.is_streaming THEN [s EXCEPT !.ret = 0]
  ELSE
    Let(ov2710_stream_enable(s),
        LAMBDA r : IF r.ret < 0
                   THEN [ov2710_stream_disable(r) EXCEPT !.is_streaming = FALSE,
                                                         !.ret = r.ret]
                   ELSE [r EXCEPT !.ret = 0])

\* ov2710_probe calls this after ov2710_mode_init; the result of the power-on
\* is not looked at.
ov2710_check_id(s) == [ov2710_power_on(s) EXCEPT !.ret = 0]

----------------------------------------------------------------------------
\* The DSI-to-LVDS bridge (mipi_bridge_enable, mipi_bridge_disable) and the
\* panel (wuxga_drm_prepare, wuxga_drm_unprepare): operators over a record d
\* that holds the fields of struct bridge_data or struct wuxga_data, the
\* power resources the call switched (pwr), its return value (ret) and the
\* resource the environment makes fail (fault).

\* A GPIO is 0 or 1, or below 0 when the device tree names none; every set
\* of a line goes to the log with the value set.
gpiod_set_value(d, gpio, value) ==
  IF d[gpio] < 0 THEN d
  ELSE [d EXCEPT ![gpio] = value, !.pwr = Append(@, <<gpio, value>>)]

\* Fails without a change of the line, or drives it.
gpiod_direction_output(d, gpio, value) ==
  IF d.fault[1] = gpio THEN [d EXCEPT !.ret = -EIO]
  ELSE [gpiod_set_value(d, gpio, value) EXCEPT !.ret = 0]

\* Fails with the regulator's count as it was, or counts one more enable.
regulator_enable(d, supply) ==
  IF d.fault[1] = supply THEN [d EXCEPT !.ret = -EIO]
  ELSE [d EXCEPT ![supply] = @ + 1, !.pwr = Append(@, <<supply, 1>>),
                 !.ret = 0]

\* A disable of a regulator that is not enabled is refused.
regulator_disable(d, supply) ==
  IF d[supply] = 0 THEN [d EXCEPT !.ret = -EIO]
  ELSE [d EXCEPT ![supply] = @ - 1, !.pwr = Append(@, <<supply, 0>>),
                 !.ret = 0]

\* Maximum count for I2C access retries.
DISPLAY_MAX_RETRIES == 3

\* The address that marks a table entry as a delay: the data is a number of
\* milliseconds.
DISPLAY_WAIT_MS == 0

\* The bridge's init_regs, as <<addr, data>>.
display_table ==
  << <<2, 1>>, <<0, 5>>, <<2, 0>>, <<22, 12447>>, <<24, 515>>,
     <<0, 5>>, <<24, 531>>, <<6, 300>>, <<320, 0>>, <<322, 0>>,
     <<324, 0>>, <<326, 0>>, <<328, 0>>, <<330, 0>>, <<332, 0>>,
     <<334, 0>>, <<336, 0>>, <<338, 0>>, <<256, 515>>, <<258, 0>>,
     <<260, 515>>, <<262, 0>>, <<264, 515>>, <<266, 0>>, <<268, 515>>,
     <<270, 0>>, <<272, 515>>, <<274, 0>>, <<528, 6500>>, <<530, 0>>,
     <<532, 5>>, <<534, 0>>, <<536, 10241>>, <<538, 0>>, <<540, 0>>,
     <<542, 0>>, <<544, 3078>>, <<546, 0>>, <<548, 20000>>, <<550, 0>>,
     <<552, 11>>, <<554, 0>>, <<556, 5>>, <<558, 0>>, <<560, 5>>,
     <<562, 0>>, <<564, 31>>, <<566, 0>>, <<568, 1>>, <<570, 0>>,
     <<572, 5>>, <<574, 5>>, <<516, 1>>, <<518, 0>>, <<1568, 1>>,
     <<1570, 32>>, <<1572, 26>>, <<1574, 1200>>, <<1576, 350>>, <<1578, 250>>,
     <<1580, 5760>>, <<1304, 1>>, <<1306, 0>>, <<1280, 134>>, <<1282, 41728>>,
     <<1280, 32768>>, <<1282, 49920>>, <<8, 55>>, <<80, 62>>, <<50, 1>>,
     <<4, 100>> >>

\* The panel's init_regs: a write, a delay and a write.
wuxga_display_table == << <<2, 1>>, <<DISPLAY_WAIT_MS, 5>>, <<2, 0>> >>

\* One call of i2c_transfer with the message e = <<dir, addr, len, data>>:
\* the call is put on the bus log, and fails if it is the transfer the
\* environment has picked (fault <<"i2c", n>>: the n-th of the running call).
i2c_transfer(d, e) ==
  [d EXCEPT !.bus = Append(@, <<e[1], e[2], e[3], e[4],
                                ~(d.fault[1] = "i2c" /\ d.fault[2] = d.xfers + 1)>>),
            !.xfers = @ + 1,
            !.ret = IF d.fault[1] = "i2c" /\ d.fault[2] = d.xfers + 1
                    THEN -EIO ELSE 1]

\* A sleep of ms milliseconds, put on the log between the transfers.
msleep(d, ms) == [d EXCEPT !.bus = Append(@, <<"msleep", 0, 0, ms, TRUE>>)]

\* The write-then-read of two bytes at address 0 that precedes the playback;
\* its result is dropped.
i2c_readback(d) == [i2c_transfer(d, <<"R", 0, 2, 0>>) EXCEPT !.ret = 0]

\* The do/while of bridge_write_reg, entered with `retry` passes done: a
\* failed transfer returns its error, a transfer that went through is
\* followed by the next pass while retry <= DISPLAY_MAX_RETRIES.
RECURSIVE bridge_write_reg_pass(_, _, _, _)
bridge_write_reg_pass(d, addr, data, retry) ==
  Bind(i2c_transfer(d, <<"W", addr, 4, data>>),
       LAMBDA x : IF retry + 1 <= DISPLAY_MAX_RETRIES
                  THEN bridge_write_reg_pass(x, addr, data, retry + 1)
                  ELSE [x EXCEPT !.ret = 0])

\* client->adapter is set for every client the I2C core probes.
bridge_write_reg(d, addr, data) == bridge_write_reg_pass(d, addr, data, 0)

\* One pass of the loop of bridge_write_table, for the entry e; ret is err.
bridge_write_entry(d, e) ==
  bridge_write_reg(IF e[1] = 0 THEN msleep(d, e[2]) ELSE d, e[1], e[2])

\* The passes of the loop of bridge_write_table for the entries lo..hi, in
\* order, up to the first whose err is not 0.  The range is halved, which
\* keeps the evaluation shallow.
RECURSIVE bridge_write_entries(_, _, _, _)
bridge_write_entries(d, regs, lo, hi) ==
  IF lo = hi THEN bridge_write_entry(d, regs[lo])
  ELSE BindNz(bridge_write_entries(d, regs, lo, (lo + hi) \div 2),
              LAMBDA r : bridge_write_entries(r, regs, (lo + hi) \div 2 + 1, hi))

\* The tables played are not empty, so err is set when the loop ends.
bridge_write_table(d, regs) == bridge_write_entries(d, regs, 1, Len(regs))

RECURSIVE wuxga_write_reg_pass(_, _, _, _)
wuxga_write_reg_pass(d, addr, data, retry) ==
  Bind(i2c_transfer(d, <<"W", addr, 4, data>>),
       LAMBDA x : IF retry + 1 <= DISPLAY_MAX_RETRIES
                  THEN wuxga_write_reg_pass(x, addr, data, retry + 1)
                  ELSE [x EXCEPT !.ret = 0])

wuxga_write_reg(d, addr, data) == wuxga_write_reg_pass(d, addr, data, 0)

\* One pass of the loop of wuxga_write_table, for the entry e; ret is err.
wuxga_write_entry(d, e) ==
  BindNz(wuxga_write_reg(d, e[1], e[2]),
         LAMBDA r : IF e[1] = DISPLAY_WAIT_MS THEN msleep(r, e[2]) ELSE r)

\* The passes of the loop of wuxga_write_table for the entries lo..hi, in
\* order, up to the first whose err is not 0.
RECURSIVE wuxga_write_entries(_, _, _, _)
wuxga_write_entries(d, regs, lo, hi) ==
  IF lo = hi THEN wuxga_write_entry(d, regs[lo])
  ELSE BindNz(wuxga_write_entries(d, regs, lo, (lo + hi) \div 2),
              LAMBDA r : wuxga_write_entries(r, regs, (lo + hi) \div 2 + 1, hi))

wuxga_write_table(d, regs) == wuxga_write_entries(d, regs, 1, Len(regs))

\* The result of the playback, which the caller does not look at, is kept in
\* err.
PlaybackDone(d) == [d EXCEPT !.err = d.ret, !.ret = 0]

\* mipi_bridge_enable from line 231 on: the two GPIOs, then the readback
\* transfer and the playback of init_regs, whose results are not looked at.
bridge_enable_powered(d) ==
  [PlaybackDone(
     bridge_write_table(
       i2c_readback(
         gpiod_set_value(gpiod_set_value(d, "lvds_gpio", 1), "power_gpio", 1)),
       display_table))
   EXCEPT !.init_regs_sent = TRUE]

\* Returns nothing; ret is the function's local variable.
mipi_bridge_enable(d) ==
  BindNz(BindNz(
    regulator_enable(gpiod_set_value(d, "ldo_gpio", 1), "vdd"),
    LAMBDA v : regulator_enable(v, "vddio")),
    LAMBDA io : bridge_enable_powered(io))

\* The results of the two disables are logged and nothing else.
mipi_bridge_disable(d) ==
  gpiod_set_value(
    regulator_disable(
      regulator_disable(
        gpiod_set_value(gpiod_set_value(d, "lvds_gpio", 0), "power_gpio", 0),
        "vddio"),
      "vdd"),
    "ldo_gpio", 0)

wuxga_drm_prepare(d) ==
  IF d.prepared THEN [d EXCEPT !.ret = 0]
  ELSE Bind(Bind(
         gpiod_direction_output(d, "TEGRA_GPIO_PU5", 1),
         LAMBDA g : regulator_enable(g, "supply")),
         LAMBDA r : [r EXCEPT !.prepared = TRUE, !.ret = 0])

\* data->supply is set by the probe, which fails without it.
wuxga_drm_unprepare(d) ==
  IF ~d.prepared THEN [d EXCEPT !.ret = 0]
  ELSE [gpiod_set_value(regulator_disable(d, "supply"), "TEGRA_GPIO_PU5", 0)
        EXCEPT !.prepared = FALSE, !.ret = 0]

wuxga_suspend(d) ==
  IF d.suspended THEN d
  ELSE [gpiod_set_value(gpiod_set_value(gpiod_set_value(gpiod_set_value(
          d, "TEGRA_GPIO_PD2", 0), "TEGRA_GPIO_PX0", 0), "TEGRA_GPIO_PC6", 0),
          "TEGRA_GPIO_PBB3", 0)
        EXCEPT !.suspended = TRUE]

wuxga_resume_gpios(d) ==
  gpiod_set_value(gpiod_set_value(gpiod_set_value(gpiod_set_value(
    d, "TEGRA_GPIO_PBB3", 1), "TEGRA_GPIO_PC6", 1), "TEGRA_GPIO_PX0", 1),
    "TEGRA_GPIO_PD2", 1)

\* The readback transfer and the playback of init_regs, whose results are
\* not looked at.
wuxga_resume(d) ==
  IF ~d.suspended THEN d
  ELSE [PlaybackDone(
          wuxga_write_table(i2c_readback(wuxga_resume_gpios(d)),
                            wuxga_display_table))
        EXCEPT !.suspended = FALSE]

wuxga_drm_disable(d) ==
  IF ~d.enabled THEN [d EXCEPT !.ret = 0]
  ELSE [wuxga_suspend(d) EXCEPT !.enabled = FALSE, !.ret = 0]

wuxga_drm_enable(d) ==
  IF d.enabled THEN [d EXCEPT !.ret = 0]
  ELSE [wuxga_resume(d) EXCEPT !.enabled = TRUE, !.ret = 0]

----------------------------------------------------------------------------
\* Bounds and inputs of the model.

\* Cap of the supplies' enable count.
MaxSupplyRefs == 1

\* The failures injected into a call, by the transfers and resources the call
\* can reach.
FaultRegulator == <<"regulator", 0, 0, 0>>
FaultClk == <<"clk", 0, 0, 0>>
FaultSoftReset == <<"W", OV2710_REG_STREAM_CTRL, 1, 128>>
FaultStreamEnable == <<"W", OV2710_REG_STREAM_CTRL, 1, 191>>
FaultStreamDisable == <<"W", OV2710_REG_STREAM_CTRL, 1, 64>>
FaultManualRead == <<"R", OV2710_REG_R_MANUAL, 1, -1>>
FaultManualWrite == <<"W", OV2710_REG_R_MANUAL, 1, -1>>
FaultGainWrite == <<"W", OV2710_REG_GAIN_PK, 2, -1>>
FaultExposureWrite == <<"W", OV2710_REG_EXPOSURE_PK_HIGH, 3, -1>>
FaultGainRead == <<"R", OV2710_REG_GAIN_PK, 2, -1>>
FaultExposureRead == <<"R", OV2710_REG_EXPOSURE_PK_HIGH, 3, -1>>
FaultFormatRead == <<"R", OV2710_REG_FORMAT1, 1, -1>>
\* the first and the last entry of both mode tables
FaultTableFirst == <<"W", 12547, 1, 147>>
FaultTableLast == <<"W", OV2710_REG_STREAM_CTRL, 1, 2>>

\* an entry that only the 720p table holds: {0x381c, 0x10}
FaultTable720p == <<"W", 14364, 1, 16>>

PowerOnFaults ==
  {NoFault, FaultRegulator, FaultClk, FaultSoftReset, FaultStreamEnable,
   FaultStreamDisable}
ModeSetFaults ==
  {NoFault, FaultManualRead, FaultManualWrite, FaultGainWrite,
   FaultExposureWrite, FaultTableFirst, FaultTable720p, FaultTableLast}
PowerFaults ==
  PowerOnFaults \cup
  {FaultFormatRead, FaultManualRead, FaultTableFirst, FaultTable720p,
   FaultTableLast}
StreamOnFaults == ModeSetFaults \cup {FaultStreamEnable}
StreamOffFaults == {NoFault, FaultStreamDisable}
CtrlFaults == {NoFault, FaultManualRead, FaultManualWrite}
SuspendFaults == {NoFault, FaultStreamDisable}
ResumeFaults == {NoFault, FaultStreamEnable, FaultStreamDisable}

\* The failures of the bridge's and the panel's power-up.
FaultVdd == <<"vdd", 0, 0, 0>>
FaultVddio == <<"vddio", 0, 0, 0>>
FaultLdoEn == <<"TEGRA_GPIO_PU5", 0, 0, 0>>
FaultSupply == <<"supply", 0, 0, 0>>
BridgeFaults == {NoFault, FaultVdd, FaultVddio}
PanelFaults == {NoFault, FaultLdoEn, FaultSupply}

\* The failure a read of a volatile control can meet.
VolatileFaults(id) ==
  {NoFault, IF id = "gain" THEN FaultGainRead ELSE FaultExposureRead}

\* What a read past the end of ov2710_hv_flip_bayer_order may yield.
OobCodes == {"OOB"}

\* Requested sizes: the catalog's two, one equally far from both, and the
\* 800x600 of ov2710_init_cfg.
Sizes == {<<1280, 720>>, <<1920, 1080>>, <<1600, 900>>, <<800, 600>>}

\* The sensor registers one pad, so the framework passes pad 0.
Pads == {0}

\* The control sets the model issues: gain and exposure are switched to manual
\* (both are automatic after the probe).
CtrlInputs ==
  { <<"auto_gain", 0>>, <<"auto_exp", V4L2_EXPOSURE_MANUAL>> }

\* The largest value the gain control takes (v4l2_ctrl_new_std, V4L2_CID_GAIN).
GainMax == 2047

VolatileIds == {"gain", "exposure"}

\* The sets that give gain and exposure a value, and that switch them back
\* to automatic, with the failures they can meet.
ValueInputs ==
  { <<"gain", 16>>, <<"exposure", 16>>,
    <<"auto_gain", 1>>, <<"auto_exp", V4L2_EXPOSURE_AUTO>> }
ValueFaults == {NoFault, FaultManualRead, FaultGainWrite, FaultExposureWrite}

\* The sets of the two flip controls, and the failure they can meet.
FlipInputs == {<<"vflip", 1>>, <<"vflip", 0>>, <<"hflip", 1>>}
FlipFaults == {NoFault, FaultFormatRead}

----------------------------------------------------------------------------
\* State, and the calls as actions.

\* struct ov2710_dev and what it owns as the record a call starts from:
\* nothing on the bus yet.
Call(f, oob) ==
  [is_enabled |-> is_enabled, is_streaming |-> is_streaming,
   mode_pending_changes |-> mode_pending_changes,
   current_mode |-> current_mode, fmt |-> fmt, ctrls |-> ctrls,
   supplies |-> supplies, xvclk |-> xvclk, reset_gpio |-> reset_gpio,
   hw |-> hw, bus |-> <<>>, pwr |-> <<>>, steps |-> <<>>, ret |-> 0,
   rval |-> 0,
   out |-> NoOut, fault |-> f, oob |-> oob]

\* The state a call leaves.
Commit(r) ==
  /\ is_enabled' = r.is_enabled
  /\ is_streaming' = r.is_streaming
  /\ mode_pending_changes' = r.mode_pending_changes
  /\ current_mode' = r.current_mode
  /\ fmt' = r.fmt
  /\ ctrls' = r.ctrls
  /\ supplies' = r.supplies
  /\ xvclk' = r.xvclk
  /\ reset_gpio' = r.reset_gpio
  /\ hw' = r.hw
  /\ ret' = r.ret
  /\ bus' = r.bus
  /\ pwr' = r.pwr
  /\ steps' = r.steps
  /\ out' = r.out

\* The writes a complete playback of a table puts on the bus.
TableWrites(regs) ==
  [i \in 1..Len(regs) |->
     <<"W", regs[i][1], OV2710_REG_VALUE_8BIT, regs[i][2], TRUE>>]

\* b holds seq as a run of consecutive transfers.
Contains(b, seq) ==
  \E k \in 0..(Len(b) - Len(seq)) : SubSeq(b, k + 1, k + Len(seq)) = seq

\* b ends in a playback of regs that stopped at a failed write.
PlaybackFailed(b, regs) ==
  \E i \in 1..Len(regs) :
    /\ Len(b) >= i
    /\ b[Len(b)] = <<"W", regs[i][1], OV2710_REG_VALUE_8BIT, regs[i][2], FALSE>>
    /\ SubSeq(b, Len(b) - i + 1, Len(b) - 1) = SubSeq(TableWrites(regs), 1, i - 1)

\* The stream-control writes: start, stop and soft reset, each with whether
\* the transfer went through.
StreamEnableWrite(ok) ==
  <<"W", OV2710_REG_STREAM_CTRL, OV2710_REG_VALUE_8BIT,
    BitNot(OV2710_REG_STREAM_CTRL_SLEEP) % 256, ok>>

StreamDisableWrite(ok) ==
  <<"W", OV2710_REG_STREAM_CTRL, OV2710_REG_VALUE_8BIT,
    OV2710_REG_STREAM_CTRL_SLEEP, ok>>

SoftResetWrite(ok) ==
  <<"W", OV2710_REG_STREAM_CTRL, OV2710_REG_VALUE_8BIT,
    OV2710_REG_STREAM_CTRL_RESET, ok>>

\* b holds the transfer e.
Has(b, e) == \E i \in 1..Len(b) : b[i] = e

\* b holds the complete playback of some mode's table.
PlaysATable(b) ==
  \E m \in ModeNames : Contains(b, TableWrites(ModeOf(m).reg_data))

\* The call that ran: op, its boolean argument (on, enable, active), the
\* control it names, its numbers (control value, or width and height), and
\* whether it is a stream start that follows a stream start whose playback
\* failed.
Ran(op, flag, id, a, b) ==
  [op |-> op, flag |-> flag, id |-> id, a |-> a, b |-> b, retry |-> FALSE]

\* ov2710_mode_init: the device the probe has built before it powers the
\* sensor, on a board whose reset line is gpio ("absent": the device tree
\* names none).
Constructed(gpio) ==
  [is_enabled |-> FALSE, is_streaming |-> FALSE,
   mode_pending_changes |-> TRUE, current_mode |-> "init",
   fmt |-> [width |-> 1920, height |-> 1080, code |-> "SBGGR10"],
   ctrls |-> [vflip |-> 0, hflip |-> 0, test_pattern |-> 0,
              auto_exp |-> V4L2_EXPOSURE_AUTO, exposure |-> 0,
              auto_gain |-> 1, gain |-> 0,
              gain_is_new |-> FALSE, exposure_is_new |-> FALSE],
   supplies |-> 0, xvclk |-> 0, reset_gpio |-> gpio, hw |-> HwDefault,
   bus |-> <<>>, pwr |-> <<>>, steps |-> <<>>, ret |-> 0, rval |-> 0,
   out |-> NoOut,
   fault |-> NoFault, oob |-> "OOB"]

\* The variables hold the device r.
Holds(r) ==
  /\ is_enabled = r.is_enabled
  /\ is_streaming = r.is_streaming
  /\ mode_pending_changes = r.mode_pending_changes
  /\ current_mode = r.current_mode
  /\ fmt = r.fmt
  /\ ctrls = r.ctrls
  /\ supplies = r.supplies
  /\ xvclk = r.xvclk
  /\ reset_gpio = r.reset_gpio
  /\ hw = r.hw
  /\ ret = r.ret
  /\ bus = r.bus
  /\ pwr = r.pwr
  /\ steps = r.steps
  /\ out = r.out

\* The bridge and the panel before either is switched on.
DisplayOff ==
  /\ bridge = [ldo_gpio |-> 0, power_gpio |-> 0, lvds_gpio |-> 0,
               vdd |-> 0, vddio |-> 0, init_regs_sent |-> FALSE]
  /\ panel = [TEGRA_GPIO_PU5 |-> 0, supply |-> 0, prepared |-> FALSE,
              TEGRA_GPIO_PBB3 |-> 1, TEGRA_GPIO_PC6 |-> 1,
              TEGRA_GPIO_PX0 |-> 1, TEGRA_GPIO_PD2 |-> 1,
              suspended |-> FALSE, enabled |-> FALSE]

InitOf(gpio) ==
  /\ Holds(Constructed(gpio))
  /\ lock = "free"
  /\ waiters = {}
  /\ power_pc = "idle"
  /\ probed = FALSE
  /\ last = Ran("none", FALSE, "", 0, 0)
  /\ DisplayOff

Init == InitOf("absent")

InitGpio == InitOf("high")

\* A power-on that enables the supplies needs room under the cap.
CanPowerOn == is_enabled \/ supplies < MaxSupplyRefs

Probe ==
  /\ ~probed
  /\ \E f \in PowerOnFaults :
       /\ Commit(ov2710_check_id(Call(f, "OOB")))
       /\ last' = Ran("probe", FALSE, "", 0, 0)
  /\ probed' = TRUE
  /\ UNCHANGED <<waiters, lock, power_pc, dispVars>>

S_power ==
  /\ probed /\ lock = "free" /\ power_pc = "idle"
  /\ \E on \in BOOLEAN, f \in PowerFaults, oob \in OobCodes :
       /\ ~on => f = NoFault
       /\ on => CanPowerOn
       /\ Commit(ov2710_s_power(Call(f, oob), on))
       /\ last' = Ran("s_power", on, "", 0, 0)
  /\ UNCHANGED <<waiters, lock, power_pc, probed, dispVars>>

S_stream ==
  /\ probed /\ lock = "free"
  /\ \E enable \in BOOLEAN,
        f \in StreamOnFaults \cup StreamOffFaults :
       /\ f \in (IF enable THEN StreamOnFaults ELSE StreamOffFaults)
       /\ Commit(ov2710_s_stream(Call(f, "OOB"), enable))
       /\ last' = [Ran("s_stream", enable, "", 0, 0) EXCEPT
                     !.retry = /\ enable
                               /\ last.op = "s_stream" /\ last.flag
                               /\ ret < 0
                               /\ PlaybackFailed(bus, ModeOf(current_mode).reg_data)]
  /\ UNCHANGED <<waiters, lock, power_pc, probed, dispVars>>

Set_fmt ==
  /\ probed /\ lock = "free"
  /\ \E pad \in Pads, which \in {"ACTIVE", "TRY"}, sz \in Sizes :
       /\ Commit(ov2710_set_fmt(Call(NoFault, "OOB"),
                                [pad |-> pad, which |-> which,
                                 width |-> sz[1], height |-> sz[2]]))
       /\ last' = Ran("set_fmt", which = "ACTIVE", "", sz[1], sz[2])
  /\ UNCHANGED <<waiters, lock, power_pc, probed, dispVars>>

S_ctrl ==
  /\ probed /\ lock = "free"
  /\ \E c \in CtrlInputs, f \in CtrlFaults :
       /\ Commit(set_control(Call(f, "OOB"), c[1], c[2]))
       /\ last' = Ran("s_ctrl", FALSE, c[1], c[2], 0)
  /\ UNCHANGED <<waiters, lock, power_pc, probed, dispVars>>

\* set_control of a gain or exposure value, or back to automatic.
S_value ==
  /\ probed /\ lock = "free"
  /\ \E c \in ValueInputs, f \in ValueFaults :
       /\ Commit(set_control(Call(f, "OOB"), c[1], c[2]))
       /\ last' = Ran("s_ctrl", FALSE, c[1], c[2], 0)
  /\ UNCHANGED <<waiters, lock, power_pc, probed, dispVars>>

\* set_control of a flip.
S_flip ==
  /\ probed /\ lock = "free"
  /\ \E c \in FlipInputs, f \in FlipFaults, oob \in OobCodes :
       /\ Commit(set_control(Call(f, oob), c[1], c[2]))
       /\ last' = Ran("s_ctrl", FALSE, c[1], c[2], 0)
  /\ UNCHANGED <<waiters, lock, power_pc, probed, dispVars>>

G_volatile_ctrl ==
  /\ probed /\ lock = "free"
  /\ \E id \in VolatileIds, f \in {NoFault, FaultGainRead, FaultExposureRead} :
       /\ f \in VolatileFaults(id)
       /\ Commit(get_control(Call(f, "OOB"), id))
       /\ last' = Ran("g_volatile_ctrl", FALSE, id, 0, 0)
  /\ UNCHANGED <<waiters, lock, power_pc, probed, dispVars>>

\* The power-management callbacks take no lock.
Suspend ==
  /\ probed
  /\ \E f \in SuspendFaults :
       /\ Commit(ov2710_suspend(Call(f, "OOB")))
       /\ last' = Ran("suspend", FALSE, "", 0, 0)
  /\ UNCHANGED <<waiters, lock, power_pc, probed, dispVars>>

Resume ==
  /\ probed
  /\ \E f \in ResumeFaults :
       /\ Commit(ov2710_resume(Call(f, "OOB")))
       /\ last' = Ran("resume", FALSE, "", 0, 0)
  /\ UNCHANGED <<waiters, lock, power_pc, probed, dispVars>>

\* One caller at a time: power, mode, stream and the power-management
\* callbacks, each call run to its end.
Next ==
  \/ Probe
  \/ S_power
  \/ S_stream
  \/ Set_fmt
  \/ Suspend
  \/ Resume

Spec == Init /\ [][Next]_vars

\* The same calls on a board with a reset line.
SpecGpio == InitGpio /\ [][Next]_vars

\* Power and stream on either board: without a reset line, and with one.
InitBoards == \E gpio \in {"absent", "high"} : InitOf(gpio)

NextBoards ==
  \/ Probe
  \/ S_power
  \/ S_stream

SpecBoards == InitBoards /\ [][NextBoards]_vars

\* One caller at a time, the controls included.
NextCtrl ==
  \/ Probe
  \/ S_power
  \/ S_stream
  \/ S_ctrl
  \/ G_volatile_ctrl

SpecCtrl == Init /\ [][NextCtrl]_vars

\* One caller at a time: the gain and exposure controls, set and read back,
\* on the sensor as the probe left it.
NextValue ==
  \/ Probe
  \/ S_ctrl
  \/ S_value
  \/ G_volatile_ctrl

SpecValue == Init /\ [][NextValue]_vars

\* The sensor after the probe and set_control(auto_gain, 0): powered, gain
\* under manual control.
ManualGainSensor ==
  set_control(ov2710_check_id(Constructed("absent")), "auto_gain", 0)

\* A powered sensor under manual gain, and user space about to set the gain
\* to one value of the control's range.
InitGain ==
  /\ Holds(ManualGainSensor)
  /\ lock = "free"
  /\ waiters = {}
  /\ power_pc = "idle"
  /\ probed = TRUE
  /\ last \in {Ran("request", FALSE, "gain", v, 0) : v \in 0..GainMax}
  /\ DisplayOff

\* VIDIOC_S_CTRL with the requested value.
S_requested ==
  /\ probed /\ lock = "free"
  /\ last.op = "request"
  /\ Commit(set_control(Call(NoFault, "OOB"), last.id, last.a))
  /\ last' = Ran("s_ctrl", FALSE, last.id, last.a, 0)
  /\ UNCHANGED <<waiters, lock, power_pc, probed, dispVars>>

NextGain == \/ S_requested \/ G_volatile_ctrl
SpecGain == InitGain /\ [][NextGain]_vars

\* The register helpers on their own: a powered sensor whose two format
\* registers hold the byte v, and one helper call with its arguments about
\* to be made.
MaxRegLen == 6
ModMasks == {0, 1, BIT(2), 15, BIT(7), 165, 240, 255}
ModVals == {0, 1, BIT(2), 90, 175, 255}
RegVals == {0, 90, 74565}

\* A 4-byte read whose first byte is 128 or more does not fit the integers
\* of the model: reads are made with every other length.
RegReadLens == (1..MaxRegLen) \ {4}

RegSensor(v) ==
  [ov2710_check_id(Constructed("absent")) EXCEPT
     !.hw = HwStore(HwStore(@, OV2710_REG_FORMAT1, OV2710_REG_VALUE_8BIT, v),
                    OV2710_REG_FORMAT2, OV2710_REG_VALUE_8BIT, v)]

RegRequests ==
  {Ran("request", FALSE, "mod_reg", m, v) : m \in ModMasks, v \in ModVals}
    \cup {Ran("request", FALSE, "write_reg", n, v) :
            n \in 1..MaxRegLen, v \in RegVals}
    \cup {Ran("request", FALSE, "read_reg", n, 0) : n \in RegReadLens}
    \cup {Ran("request", FALSE, id, 0, 0) : id \in {"vflip", "hflip"}}

InitReg ==
  /\ \E v \in 0..255 : Holds(RegSensor(v))
  /\ lock = "free"
  /\ waiters = {}
  /\ power_pc = "idle"
  /\ probed = TRUE
  /\ last \in RegRequests
  /\ DisplayOff

\* ov2710_mod_reg(sensor, OV2710_REG_FORMAT1, mask, val).
Mod_reg ==
  /\ last.op = "request" /\ last.id = "mod_reg"
  /\ \E f \in FlipFaults :
       Commit(ov2710_mod_reg(Call(f, "OOB"), OV2710_REG_FORMAT1, last.a, last.b))
  /\ last' = Ran("mod_reg", FALSE, last.id, last.a, last.b)
  /\ UNCHANGED <<waiters, lock, power_pc, probed, dispVars>>

\* __ov2710_write_reg(sensor, OV2710_REG_FORMAT1, len, val).
Write_reg ==
  /\ last.op = "request" /\ last.id = "write_reg"
  /\ Commit(__ov2710_write_reg(Call(NoFault, "OOB"), OV2710_REG_FORMAT1,
                               last.a, last.b))
  /\ last' = Ran("write_reg", FALSE, last.id, last.a, last.b)
  /\ UNCHANGED <<waiters, lock, power_pc, probed, dispVars>>

\* __ov2710_read_reg(sensor, OV2710_REG_FORMAT1, len, &val).
Read_reg ==
  /\ last.op = "request" /\ last.id = "read_reg"
  /\ Commit(__ov2710_read_reg(Call(NoFault, "OOB"), OV2710_REG_FORMAT1, last.a))
  /\ last' = Ran("read_reg", FALSE, last.id, last.a, last.b)
  /\ UNCHANGED <<waiters, lock, power_pc, probed, dispVars>>

\* ov2710_vflip_disable(sensor), ov2710_hflip_disable(sensor).
Flip_disable ==
  /\ last.op = "request" /\ last.id \in {"vflip", "hflip"}
  /\ \E f \in FlipFaults :
       Commit(IF last.id = "vflip" THEN ov2710_vflip_disable(Call(f, "OOB"))
              ELSE ov2710_hflip_disable(Call(f, "OOB")))
  /\ last' = Ran("flip_disable", FALSE, last.id, 0, 0)
  /\ UNCHANGED <<waiters, lock, power_pc, probed, dispVars>>

NextReg == \/ Mod_reg \/ Write_reg \/ Read_reg \/ Flip_disable
SpecReg == InitReg /\ [][NextReg]_vars

\* One caller at a time: power, stream and the flips.
NextFlip ==
  \/ Probe
  \/ S_power
  \/ S_stream
  \/ S_flip

SpecFlip == Init /\ [][NextFlip]_vars

\* One caller at a time: the gain and exposure controls, the mode and the
\* stream on the sensor the probe powered.
NextCommit ==
  \/ Probe
  \/ S_ctrl
  \/ Set_fmt
  \/ S_stream

SpecCommit == Init /\ [][NextCommit]_vars

----------------------------------------------------------------------------
\* The display pipeline's power calls, as the DRM core issues them, next to
\* the sensor's probe and s_power on a board with a reset line.

BridgeCall(f) ==
  [ldo_gpio |-> bridge.ldo_gpio, power_gpio |-> bridge.power_gpio,
   lvds_gpio |-> bridge.lvds_gpio, vdd |-> bridge.vdd, vddio |-> bridge.vddio,
   init_regs_sent |-> bridge.init_regs_sent,
   pwr |-> <<>>, bus |-> <<>>, xfers |-> 0, err |-> 0, ret |-> 0, fault |-> f]

\* The state a bridge call leaves; it returns nothing.
BridgeCommit(d) ==
  /\ bridge' = [ldo_gpio |-> d.ldo_gpio, power_gpio |-> d.power_gpio,
                lvds_gpio |-> d.lvds_gpio, vdd |-> d.vdd, vddio |-> d.vddio,
                init_regs_sent |-> d.init_regs_sent]
  /\ pwr' = d.pwr
  /\ ret' = 0
  /\ bus' = d.bus
  /\ steps' = <<>>
  /\ out' = [NoOut EXCEPT !.val = d.err]

PanelCall(f) ==
  [TEGRA_GPIO_PU5 |-> panel.TEGRA_GPIO_PU5, supply |-> panel.supply,
   prepared |-> panel.prepared,
   TEGRA_GPIO_PBB3 |-> panel.TEGRA_GPIO_PBB3,
   TEGRA_GPIO_PC6 |-> panel.TEGRA_GPIO_PC6,
   TEGRA_GPIO_PX0 |-> panel.TEGRA_GPIO_PX0,
   TEGRA_GPIO_PD2 |-> panel.TEGRA_GPIO_PD2,
   suspended |-> panel.suspended, enabled |-> panel.enabled,
   pwr |-> <<>>, bus |-> <<>>, xfers |-> 0, err |-> 0, ret |-> 0, fault |-> f]

PanelCommit(d) ==
  /\ panel' = [TEGRA_GPIO_PU5 |-> d.TEGRA_GPIO_PU5, supply |-> d.supply,
               prepared |-> d.prepared,
               TEGRA_GPIO_PBB3 |-> d.TEGRA_GPIO_PBB3,
               TEGRA_GPIO_PC6 |-> d.TEGRA_GPIO_PC6,
               TEGRA_GPIO_PX0 |-> d.TEGRA_GPIO_PX0,
               TEGRA_GPIO_PD2 |-> d.TEGRA_GPIO_PD2,
               suspended |-> d.suspended, enabled |-> d.enabled]
  /\ pwr' = d.pwr
  /\ ret' = d.ret
  /\ bus' = d.bus
  /\ steps' = <<>>
  /\ out' = [NoOut EXCEPT !.val = d.err]

\* An enable needs room under the cap of both regulators' counts.
Bridge_enable ==
  /\ bridge.vdd < MaxSupplyRefs /\ bridge.vddio < MaxSupplyRefs
  /\ \E f \in BridgeFaults : BridgeCommit(mipi_bridge_enable(BridgeCall(f)))
  /\ last' = Ran("bridge_enable", TRUE, "", 0, 0)
  /\ UNCHANGED <<waiters, devVars, lock, power_pc, probed, panel>>

Bridge_disable ==
  /\ BridgeCommit(mipi_bridge_disable(BridgeCall(NoFault)))
  /\ last' = Ran("bridge_disable", FALSE, "", 0, 0)
  /\ UNCHANGED <<waiters, devVars, lock, power_pc, probed, panel>>

Panel_prepare ==
  /\ \E f \in PanelFaults : PanelCommit(wuxga_drm_prepare(PanelCall(f)))
  /\ last' = Ran("panel_prepare", TRUE, "", 0, 0)
  /\ UNCHANGED <<waiters, devVars, lock, power_pc, probed, bridge>>

Panel_unprepare ==
  /\ PanelCommit(wuxga_drm_unprepare(PanelCall(NoFault)))
  /\ last' = Ran("panel_unprepare", FALSE, "", 0, 0)
  /\ UNCHANGED <<waiters, devVars, lock, power_pc, probed, bridge>>

NextPower ==
  \/ Probe
  \/ S_power
  \/ Bridge_enable
  \/ Bridge_disable
  \/ Panel_prepare
  \/ Panel_unprepare

SpecPower == InitGpio /\ [][NextPower]_vars

\* The transfer of a display call that fails: none, the readback, a pass of
\* the first entry, of the delay entry, of the third entry, of the last
\* entry of the bridge's table.
TransferFaults ==
  {NoFault} \cup {<<"i2c", n, 0, 0>> : n \in {1, 2, 4, 6, 9, 10, 13, 285}}

\* mipi_bridge_enable with its transfers.
Bridge_play ==
  /\ bridge.vdd < MaxSupplyRefs /\ bridge.vddio < MaxSupplyRefs
  /\ \E f \in TransferFaults : BridgeCommit(mipi_bridge_enable(BridgeCall(f)))
  /\ last' = Ran("bridge_enable", TRUE, "", 0, 0)
  /\ UNCHANGED <<waiters, devVars, lock, power_pc, probed, panel>>

Panel_enable ==
  /\ \E f \in TransferFaults : PanelCommit(wuxga_drm_enable(PanelCall(f)))
  /\ last' = Ran("panel_enable", TRUE, "", 0, 0)
  /\ UNCHANGED <<waiters, devVars, lock, power_pc, probed, bridge>>

Panel_disable ==
  /\ PanelCommit(wuxga_drm_disable(PanelCall(NoFault)))
  /\ last' = Ran("panel_disable", FALSE, "", 0, 0)
  /\ UNCHANGED <<waiters, devVars, lock, power_pc, probed, bridge>>

NextTable ==
  \/ Bridge_play
  \/ Bridge_disable
  \/ Panel_prepare
  \/ Panel_enable
  \/ Panel_disable
  \/ Panel_unprepare

SpecTable == Init /\ [][NextTable]_vars

----------------------------------------------------------------------------
\* Several callers. A call is cut where another thread can run: s_power after
\* mutex_unlock, after v4l2_ctrl_handler_setup and between the two halves of
\* ov2710_mode_restore; s_stream, to show a holder of the mutex at work,
\* between the mode commit and the stream-control write. lock names the
\* holder of sensor->lock; bus, ret and last are those of the last step.

ConcRestoreFaults == {NoFault, FaultTableLast}
ConcCommitFaults == {NoFault, FaultTableFirst}
ConcSwitchFaults == {NoFault, FaultStreamEnable}

\* s_power, lines 618-625.
Power_locked ==
  /\ probed /\ lock = "free" /\ power_pc = "idle"
  /\ \E on \in BOOLEAN :
       /\ on => CanPowerOn
       /\ Commit(s_power_locked(Call(NoFault, "OOB"), on))
       /\ power_pc' = IF on /\ ret' = 0 THEN "setup" ELSE "idle"
       /\ last' = Ran("s_power", on, "", 0, 0)
  /\ UNCHANGED <<waiters, lock, probed, dispVars>>

\* s_power, lines 627-630; the control framework takes hdl->lock, which is
\* sensor->lock, around the calls.
Power_setup ==
  /\ power_pc = "setup" /\ lock = "free"
  /\ \E oob \in OobCodes :
       Commit(v4l2_ctrl_handler_setup(Call(NoFault, oob)))
  /\ power_pc' = IF ret' < 0 THEN "idle" ELSE "restore"
  /\ last' = Ran("s_power_setup", TRUE, "", 0, 0)
  /\ UNCHANGED <<waiters, lock, probed, dispVars>>

\* ov2710_mode_restore, lines 552-554, with no lock held.
Power_restore ==
  /\ power_pc = "restore"
  /\ \E f \in ConcRestoreFaults :
       Commit(ov2710_load_regs(Call(f, "OOB"), ov2710_mode_init_data))
  /\ power_pc' = IF ret' < 0 THEN "idle" ELSE "mode_set"
  /\ last' = Ran("s_power_restore", TRUE, "", 0, 0)
  /\ UNCHANGED <<waiters, lock, probed, dispVars>>

\* ov2710_mode_restore, line 556, with no lock held.
Power_mode_set ==
  /\ power_pc = "mode_set"
  /\ \E f \in ConcRestoreFaults :
       Commit(ov2710_mode_set(Call(f, "OOB")))
  /\ power_pc' = "idle"
  /\ last' = Ran("s_power_mode_set", TRUE, "", 0, 0)
  /\ UNCHANGED <<waiters, lock, probed, dispVars>>

\* s_stream, lines 655-664: keeps the mutex unless it leaves by goto unlock.
Stream_begin ==
  /\ probed /\ lock = "free"
  /\ \E enable \in BOOLEAN, f \in ConcCommitFaults :
       /\ ~enable => f = NoFault
       /\ Commit(IF is_streaming = enable THEN Call(f, "OOB")
                 ELSE s_stream_commit(Call(f, "OOB"), enable))
       /\ lock' = IF is_streaming = enable \/ ret' < 0 THEN "free"
                  ELSE IF enable THEN "s_stream_on" ELSE "s_stream_off"
       /\ last' = Ran("s_stream", enable, "", 0, 0)
  /\ UNCHANGED <<waiters, power_pc, probed, dispVars>>

\* s_stream, lines 666-675.
Stream_end ==
  /\ lock \in {"s_stream_on", "s_stream_off"}
  /\ \E f \in ConcSwitchFaults :
       Commit(s_stream_switch(Call(f, "OOB"), lock = "s_stream_on"))
  /\ lock' = "free"
  /\ last' = Ran("s_stream_end", lock = "s_stream_on", "", 0, 0)
  /\ UNCHANGED <<waiters, power_pc, probed, dispVars>>

NextConc ==
  \/ Probe
  \/ Power_locked
  \/ Power_setup
  \/ Power_restore
  \/ Power_mode_set
  \/ Stream_begin
  \/ Stream_end
  \/ Set_fmt
  \/ Suspend
  \/ Resume

SpecConc == Init /\ [][NextConc]_vars

----------------------------------------------------------------------------
\* The mutex under contention. There is one caller for each operation that
\* takes sensor->lock; a caller that finds the mutex taken sleeps in
\* mutex_lock and is woken when the mutex is free. lock names the holder and,
\* for s_stream, its position: "s_stream" before the mode commit,
\* "s_stream_on" or "s_stream_off" before the stream-control write.

LockCallers ==
  {"s_power", "s_stream", "set_fmt", "get_fmt", "s_g_frame_interval"}

\* The caller that holds the mutex ("free": none).
Holder ==
  IF lock \in {"s_stream_on", "s_stream_off"} THEN "s_stream" ELSE lock

\* A step inside mutex_lock: the device is left alone.
LockStep ==
  /\ last' = Ran("mutex_lock", FALSE, "", 0, 0)
  /\ ret' = 0 /\ bus' = <<>> /\ pwr' = <<>> /\ steps' = <<>> /\ out' = NoOut
  /\ UNCHANGED <<devVars, power_pc, probed, dispVars>>

\* mutex_lock(&sensor->lock) by a caller that is in no call: it takes the
\* free mutex, or goes to sleep. One caller sleeps at a time.
Mutex_lock ==
  /\ probed
  /\ \E c \in LockCallers :
       /\ c # Holder /\ c \notin waiters
       /\ c = "s_power" => power_pc = "idle"
       /\ IF lock = "free"
          THEN lock' = c /\ UNCHANGED waiters
          ELSE waiters = {} /\ waiters' = {c} /\ UNCHANGED lock
       /\ LockStep

\* The mutex is free and the sleeping caller c gets it.
Mutex_wake(c) ==
  /\ lock = "free" /\ c \in waiters
  /\ lock' = c
  /\ waiters' = waiters \ {c}
  /\ LockStep

\* s_power, lines 620-625: the one path ends in mutex_unlock.
Held_power ==
  /\ lock = "s_power"
  /\ \E on \in BOOLEAN :
       /\ on => CanPowerOn
       /\ Commit(s_power_locked(Call(NoFault, "OOB"), on))
       /\ power_pc' = IF on /\ ret' = 0 THEN "setup" ELSE "idle"
       /\ last' = Ran("s_power", on, "", 0, 0)
  /\ lock' = "free"
  /\ UNCHANGED <<waiters, probed, dispVars>>

\* An s_stream that returns the error of the mode commit without going to
\* the label unlock: the mutex stays taken by a call that has returned.
stream_commit_returns_locked(streaming, enable, result) ==
  IF streaming = enable THEN "free"
  ELSE IF result < 0 THEN "s_stream_returned"
  ELSE IF enable THEN "s_stream_on" ELSE "s_stream_off"

\* s_stream, lines 657-664: what the holder does after the mode commit. It
\* goes to the label unlock, where the mutex is released, when the stream is
\* already in the state asked for and when the commit has failed; else it
\* goes on to the stream-control write.
s_stream_after_commit(streaming, enable, result) ==
  IF streaming = enable \/ result < 0 THEN "free"
  ELSE IF enable THEN "s_stream_on" ELSE "s_stream_off"

\* s_stream, lines 657-664, by the holder of the mutex.
Held_stream_commit ==
  /\ lock = "s_stream"
  /\ \E enable \in BOOLEAN, f \in ConcCommitFaults :
       /\ ~enable => f = NoFault
       /\ Commit(IF is_streaming = enable THEN Call(f, "OOB")
                 ELSE s_stream_commit(Call(f, "OOB"), enable))
       /\ lock' = s_stream_after_commit(is_streaming, enable, ret')
       /\ last' = Ran("s_stream", enable, "", 0, 0)
  /\ UNCHANGED <<waiters, power_pc, probed, dispVars>>

\* set_fmt, lines 741-774, by the holder: every path ends at the label unlock.
Held_set_fmt ==
  /\ lock = "set_fmt"
  /\ \E which \in {"ACTIVE", "TRY"}, sz \in {<<1280, 720>>} :
       /\ Commit(ov2710_set_fmt(Call(NoFault, "OOB"),
                                [pad |-> 0, which |-> which,
                                 width |-> sz[1], height |-> sz[2]]))
       /\ last' = Ran("set_fmt", which = "ACTIVE", "", sz[1], sz[2])
  /\ lock' = "free"
  /\ UNCHANGED <<waiters, power_pc, probed, dispVars>>

\* get_fmt, lines 706-721, by the holder.
Held_get_fmt ==
  /\ lock = "get_fmt"
  /\ \E which \in {"ACTIVE", "TRY"}, api \in BOOLEAN :
       /\ Commit(ov2710_get_fmt(Call(NoFault, "OOB"),
                                [pad |-> 0, which |-> which], api))
       /\ last' = Ran("get_fmt", which = "ACTIVE", "", 0, 0)
  /\ lock' = "free"
  /\ UNCHANGED <<waiters, power_pc, probed, dispVars>>

\* s_g_frame_interval, lines 644-645, by the holder.
Held_frame_interval ==
  /\ lock = "s_g_frame_interval"
  /\ Commit(ov2710_s_g_frame_interval(Call(NoFault, "OOB")))
  /\ last' = Ran("s_g_frame_interval", FALSE, "", 0, 0)
  /\ lock' = "free"
  /\ UNCHANGED <<waiters, power_pc, probed, dispVars>>

\* The sensor after a probe that powered it.
InitFair ==
  /\ Holds(ov2710_check_id(Constructed("absent")))
  /\ lock = "free"
  /\ waiters = {}
  /\ power_pc = "idle"
  /\ probed = TRUE
  /\ last = Ran("probe", FALSE, "", 0, 0)
  /\ DisplayOff

NextFair ==
  \/ Mutex_lock
  \/ \E c \in LockCallers : Mutex_wake(c)
  \/ Held_power
  \/ Power_setup
  \/ Power_restore
  \/ Power_mode_set
  \/ Held_stream_commit
  \/ Stream_end
  \/ Held_set_fmt
  \/ Held_get_fmt
  \/ Held_frame_interval

\* The positions at which a thread holds the mutex, and those of an s_power
\* call past its unlock.
HolderPositions ==
  {"s_power", "s_stream", "s_stream_on", "s_stream_off", "set_fmt", "get_fmt",
   "s_g_frame_interval"}

TailPositions == {"setup", "restore", "mode_set"}

\* The thread that holds the mutex at p gets to its next position; the
\* s_power call at p gets to its next position.
Runs(p) == lock = p /\ lock' \in (HolderPositions \cup {"free"}) \ {p}

Continues(p) == power_pc = p /\ power_pc' \in (TailPositions \cup {"idle"}) \ {p}

\* A thread that can run does run: the holder of the mutex and the s_power
\* call past its unlock go on to their next position, which the actions
\* above let them do in every state. The mutex hands itself to a sleeper
\* that keeps finding it taken, so a sleeper, and the control setup that
\* takes the mutex inside s_power, get it when it is free again and again.
Fairness ==
  /\ \A p \in HolderPositions : WF_lock(Runs(p))
  /\ \A c \in LockCallers : SF_vars(Mutex_wake(c))
  /\ SF_power_pc(Continues("setup") /\ lock = "free")
  /\ WF_power_pc(Continues("restore"))
  /\ WF_power_pc(Continues("mode_set"))

SpecFair == InitFair /\ [][NextFair]_vars /\ Fairness

----------------------------------------------------------------------------
\* Properties.

\* The two modes of the catalog by their sizes, as ov2710_mode_data declares
\* them at lines 204-211: 1280x720 first, 1920x1080 second.
NearestDeclared(width, height) ==
  IF Abs(1280 - width) + Abs(720 - height) <= Abs(1920 - width) + Abs(1080 - height)
  THEN "720p" ELSE "1080p"

\* C1: a power(on) that fails on an unpowered sensor with no regulator and no
\* clock enabled leaves it so: unpowered, no regulator and no clock enabled.
C1_FailedPowerOnRollsBack ==
  [][(~is_enabled /\ supplies = 0 /\ xvclk = 0
      /\ last'.op = "s_power" /\ last'.flag /\ ret' < 0)
       => (~is_enabled' /\ supplies' = 0 /\ xvclk' = 0)]_vars

\* C2: after a stream start that failed at any step the device is not
\* streaming and the mode change is still pending.
C2_FailedStartKeepsPending ==
  (last.op = "s_stream" /\ last.flag /\ ret < 0) =>
    (~is_streaming /\ mode_pending_changes)

\* C3: a stream start whose table playback fails part-way returns the error
\* with is_streaming false and mode_pending_changes true, and the successful
\* stream start that follows writes the whole table of the mode from its first
\* entry on.
C3_PlaybackRestartsFromFirst ==
  /\ (last.op = "s_stream" /\ last.flag
      /\ PlaybackFailed(bus, ModeOf(current_mode).reg_data)) =>
       (ret = -EIO /\ ~is_streaming /\ mode_pending_changes)
  /\ (last.retry /\ ret = 0) =>
       (is_streaming /\ Contains(bus, TableWrites(ModeOf(current_mode).reg_data)))

\* C3: a successful stream start right after one whose playback failed.
C3_Witness ==
  /\ last.retry /\ ret = 0 /\ is_streaming
  /\ Contains(bus, TableWrites(ModeOf(current_mode).reg_data))

C5_NoBusAccessWhileUnpowered ==
  [][(~is_enabled /\ last'.op \in {"s_stream", "s_ctrl", "g_volatile_ctrl",
                                   "suspend", "resume"})
       => bus' = <<>>]_vars

\* C6: while the mode restore of power(on) is in flight, no set_fmt and no
\* stream call takes a step.
C6_RestoreIsSerialized ==
  [][(power_pc \in {"restore", "mode_set"})
       => (last'.op \notin {"set_fmt", "s_stream", "s_stream_end"})]_vars

\* C7: suspend and resume run only when no other call holds the mutex.
C7_PmCallbacksTakeLock ==
  [][(last'.op \in {"suspend", "resume"}) => (lock = "free")]_vars

\* C8: a stream call that asks for the state the device is in writes nothing,
\* changes nothing and returns 0.
C8_StreamIdempotent ==
  [][(last'.op = "s_stream" /\ last'.flag = is_streaming) =>
       (bus' = <<>> /\ ret' = 0 /\ UNCHANGED devVars)]_vars

\* C8: a stream start on a streaming device, and a stream stop on a stopped
\* one, have returned without a transfer.
C8_Witness ==
  last.op = "s_stream" /\ last.flag /\ is_streaming /\ bus = <<>> /\ ret = 0

\* C9: set_fmt on a streaming device returns -EBUSY and leaves the mode, the
\* format and the pending flag alone.
C9_SetFmtBusy ==
  [][(last'.op = "set_fmt" /\ is_streaming) =>
       (ret' = -EBUSY /\ UNCHANGED <<current_mode, fmt, mode_pending_changes>>)]_vars

\* C9: a rejected set_fmt of the active format.
C9_Witness ==
  last.op = "set_fmt" /\ last.flag /\ is_streaming /\ ret = -EBUSY

\* C10: set_fmt of the active format on a device that is not streaming selects
\* the catalog mode nearest by summed absolute difference, the first declared
\* of two equally near, marks it pending, hands back its size and makes no
\* transfer.
C10_NearestModeFirstOnTie ==
  (last.op = "set_fmt" /\ last.flag /\ ~is_streaming) =>
    /\ ret = 0
    /\ current_mode = NearestDeclared(last.a, last.b)
    /\ mode_pending_changes
    /\ out.width = ModeOf(current_mode).width
    /\ out.height = ModeOf(current_mode).height
    /\ fmt.width = out.width /\ fmt.height = out.height
    /\ bus = <<>>

\* C10: a request as far from 1280x720 as from 1920x1080 has selected 720p.
C10_Witness ==
  /\ last.op = "set_fmt" /\ last.flag /\ ~is_streaming
  /\ last.a = 1600 /\ last.b = 900
  /\ Abs(1280 - last.a) + Abs(720 - last.b) = Abs(1920 - last.a) + Abs(1080 - last.b)
  /\ current_mode = "720p" /\ out.width = 1280 /\ out.height = 720

\* C11: a power(on) that succeeds on an unpowered sensor leaves it powered and
\* not streaming, its supplies and its clock enabled, and has played no mode
\* table.
C11_PowerOnPlaysNoTable ==
  [][(~is_enabled /\ last'.op = "s_power" /\ last'.flag /\ ret' = 0) =>
       (is_enabled' /\ ~is_streaming' /\ supplies' > 0 /\ xvclk' > 0
        /\ ~PlaysATable(bus'))]_vars

\* C13: a stream stop on a streaming device returns 0 and leaves it not
\* streaming, whatever became of the stream-disable write.
C13_StreamStopAlwaysSucceeds ==
  [][(is_streaming /\ last'.op = "s_stream" /\ ~last'.flag) =>
       (ret' = 0 /\ ~is_streaming')]_vars

\* C14: a power(off) on a streaming device issues the stream-disable write and
\* leaves the device unpowered and not streaming.
C14_PowerOffStopsStream ==
  [][(is_enabled /\ is_streaming /\ last'.op = "s_power" /\ ~last'.flag) =>
       (~is_enabled' /\ ~is_streaming'
        /\ (Has(bus', StreamDisableWrite(TRUE))
            \/ Has(bus', StreamDisableWrite(FALSE))))]_vars

\* C15: a successful resume of a device that was streaming has played the
\* table of the current mode and then written the stream enable; a resume of
\* a device that was not streaming changes nothing and writes nothing.
C15_ResumeReplaysAll ==
  [][(last'.op = "resume") =>
       IF is_streaming
       THEN ret' = 0 =>
              /\ Contains(bus', TableWrites(ModeOf(current_mode).reg_data))
              /\ bus'[Len(bus')] = StreamEnableWrite(TRUE)
       ELSE bus' = <<>> /\ ret' = 0 /\ UNCHANGED devVars]_vars

\* C16: a resume whose stream-enable write fails returns the error and leaves
\* the device not streaming; a suspend returns 0.
C16_ResumeFailureSurfaces ==
  [][/\ (last'.op = "resume" /\ Has(bus', StreamEnableWrite(FALSE))) =>
          (ret' = -EIO /\ ~is_streaming')
     /\ (last'.op = "suspend") => (ret' = 0)]_vars

\* C16: a resume of a streaming device whose stream-enable write failed.
C16_Witness ==
  /\ last.op = "resume" /\ Has(bus, StreamEnableWrite(FALSE))
  /\ ret = -EIO /\ ~is_streaming /\ is_enabled

\* C19: a power(on) of an unpowered sensor in which the soft reset, the
\* stream-enable or the stream-disable write of ov2710_power_on fails returns
\* an error and leaves the sensor unpowered.
C19_PowerOnWriteFailureSurfaces ==
  [][(~is_enabled /\ last'.op = "s_power" /\ last'.flag
      /\ (\/ Has(bus', SoftResetWrite(FALSE))
          \/ Has(bus', StreamEnableWrite(FALSE))
          \/ Has(bus', StreamDisableWrite(FALSE)))) =>
       (ret' < 0 /\ ~is_enabled')]_vars

\* The resources a call switched, in order, a run of sets of one resource
\* taken as one.
Resources(log) == [i \in 1..Len(log) |-> log[i][1]]

Reverse(seq) == [i \in 1..Len(seq) |-> seq[Len(seq) + 1 - i]]

RECURSIVE Squeeze(_)
Squeeze(seq) ==
  IF Len(seq) < 2 THEN seq
  ELSE IF seq[1] = seq[2] THEN Squeeze(Tail(seq))
  ELSE <<seq[1]>> \o Squeeze(Tail(seq))

\* The order in which ov2710_power_on, mipi_bridge_enable and
\* wuxga_drm_prepare enable their resources.
SensorUp == <<"supplies", "reset_gpio", "xvclk">>
BridgeUp == <<"ldo_gpio", "vdd", "vddio", "lvds_gpio", "power_gpio">>
PanelUp == <<"TEGRA_GPIO_PU5", "supply">>

\* C17: a power-up that completes enables the device's resources in the
\* order above, and the power-down of a device that is up disables them in
\* exactly the reverse order: sensor, bridge and panel.
C17_PowerDownReversesPowerUp ==
  [][/\ (last'.op = "s_power" /\ last'.flag /\ ~is_enabled /\ is_enabled') =>
          (Squeeze(Resources(pwr')) = SensorUp)
     /\ (last'.op = "s_power" /\ ~last'.flag /\ is_enabled) =>
          (Resources(pwr') = Reverse(SensorUp))
     /\ (last'.op = "bridge_enable" /\ bridge'.vddio > bridge.vddio) =>
          (Resources(pwr') = BridgeUp)
     /\ (last'.op = "bridge_disable" /\ bridge.vdd > 0 /\ bridge.vddio > 0) =>
          (Resources(pwr') = Reverse(BridgeUp))
     /\ (last'.op = "panel_prepare" /\ ~panel.prepared /\ panel'.prepared) =>
          (Resources(pwr') = PanelUp)
     /\ (last'.op = "panel_unprepare" /\ panel.prepared) =>
          (Resources(pwr') = Reverse(PanelUp))]_vars

\* The log of a call that switched some resources on and then the same
\* resources off again, last first.
RolledBack(log) ==
  \E k \in 0..Len(log) :
    /\ Len(log) = 2 * k
    /\ \A i \in 1..k : log[i][2] = 1 /\ log[2 * k + 1 - i] = <<log[i][1], 0>>

\* C18: a panel prepare or a bridge enable that is aborted by a resource
\* that fails to enable has disabled again, last first, what it had enabled:
\* the device's resources are as they were before the call.
C18_AbortedPowerUpRollsBack ==
  [][/\ (last'.op = "panel_prepare" /\ ~panel.prepared
         /\ panel.TEGRA_GPIO_PU5 = 0 /\ ret' < 0) =>
          (panel' = panel /\ RolledBack(pwr'))
     /\ (last'.op = "bridge_enable" /\ bridge.ldo_gpio = 0
         /\ bridge'.vddio = bridge.vddio) =>
          (bridge' = bridge /\ RolledBack(pwr'))]_vars

\* A transfer as a stream start is expected to issue it: direction,
\* register, length, and the bits of the value that are fixed (mask, bits).
Fits(e, x) ==
  e[1] = x[1] /\ e[2] = x[2] /\ e[3] = x[3] /\ BitAnd(e[4], x[4]) = x[5]

\* The read and the write of the switch of bit to on in OV2710_REG_R_MANUAL.
ManualSwitch(bit, on) ==
  << <<"R", OV2710_REG_R_MANUAL, OV2710_REG_VALUE_8BIT, 0, 0>>,
     <<"W", OV2710_REG_R_MANUAL, OV2710_REG_VALUE_8BIT, bit,
       IF on THEN bit ELSE 0>> >>

\* The transfers of a stream start that commits mode with the controls c:
\* gain and exposure to manual, each with its value if that is new, the
\* table, back to automatic what the controls have automatic, stream enable.
StartTransfers(c, mode) ==
  ManualSwitch(BIT(1), TRUE)
  \o (IF c.gain_is_new
      THEN << <<"W", OV2710_REG_GAIN_PK, OV2710_REG_VALUE_16BIT, 65535, c.gain>> >>
      ELSE <<>>)
  \o ManualSwitch(BIT(0), TRUE)
  \o (IF c.exposure_is_new
      THEN << <<"W", OV2710_REG_EXPOSURE_PK_HIGH, OV2710_REG_VALUE_24BIT,
                16777215, c.exposure * 16>> >>
      ELSE <<>>)
  \o [i \in 1..Len(mode.reg_data) |->
        <<"W", mode.reg_data[i][1], OV2710_REG_VALUE_8BIT, 255,
          mode.reg_data[i][2]>>]
  \o (IF c.auto_gain # 0 THEN ManualSwitch(BIT(1), FALSE) ELSE <<>>)
  \o (IF c.auto_exp = V4L2_EXPOSURE_AUTO
      THEN ManualSwitch(BIT(0), FALSE) ELSE <<>>)
  \o << <<"W", OV2710_REG_STREAM_CTRL, OV2710_REG_VALUE_8BIT, 255,
          BitNot(OV2710_REG_STREAM_CTRL_SLEEP) % 256>> >>

\* b is a run of the expected transfers x from the first on, and all of them
\* if the call returned 0.
RunsInOrder(b, x, r) ==
  /\ Len(b) <= Len(x)
  /\ \A i \in 1..Len(b) : Fits(b[i], x[i])
  /\ (r = 0) => (Len(b) = Len(x) /\ b[Len(b)][5])

\* C12: a stream start with a pending mode issues its transfers in this
\* order: gain and exposure to manual, every entry of the current mode's
\* table in table order, gain and exposure back to automatic where the
\* control is automatic, and last the stream enable, which is not issued
\* unless every write of the table went through.
C12_StartWritesInOrder ==
  [][(last'.op = "s_stream" /\ last'.flag /\ ~is_streaming
      /\ mode_pending_changes) =>
       /\ RunsInOrder(bus', StartTransfers(ctrls, ModeOf(current_mode)), ret')
       /\ (Has(bus', StreamEnableWrite(TRUE)) \/ Has(bus', StreamEnableWrite(FALSE)))
            => Contains(bus', TableWrites(ModeOf(current_mode).reg_data))]_vars

\* C12: a stream start that committed the 720p mode with the gain manual
\* and the exposure automatic.
C12_Witness ==
  /\ last.op = "s_stream" /\ last.flag /\ is_streaming /\ ret = 0
  /\ current_mode = "720p" /\ ctrls.auto_gain = 0
  /\ ctrls.auto_exp = V4L2_EXPOSURE_AUTO
  /\ Contains(bus, TableWrites(Mode720p.reg_data))
  /\ Len(bus) = Len(Mode720p.reg_data) + 7
  /\ bus[Len(bus)] = StreamEnableWrite(TRUE)

\* C20: a set of the vertical or horizontal flip on a streaming device
\* returns -EBUSY, makes no transfer and leaves the bayer code of the format
\* as it was.
C20_FlipWhileStreamingBusy ==
  [][(last'.op = "s_ctrl" /\ last'.id \in {"vflip", "hflip"} /\ is_streaming) =>
       (ret' = -EBUSY /\ bus' = <<>> /\ fmt'.code = fmt.code)]_vars

\* The register a volatile control is read from, and the control value the
\* registers h hold.
VolatileReg(id) ==
  IF id = "gain" THEN OV2710_REG_GAIN_PK ELSE OV2710_REG_EXPOSURE_PK_HIGH

VolatileLen(id) ==
  IF id = "gain" THEN OV2710_REG_VALUE_16BIT ELSE OV2710_REG_VALUE_24BIT

HwControl(h, id) ==
  IF id = "gain" THEN HwLoad(h, OV2710_REG_GAIN_PK, OV2710_REG_VALUE_16BIT)
  ELSE HwLoad(h, OV2710_REG_EXPOSURE_PK_HIGH, OV2710_REG_VALUE_24BIT) \div 16

\* C21: get_control of gain or exposure on an unpowered sensor makes no
\* transfer, returns 0 and leaves the controls as they were; on a powered
\* sensor it makes the one read of the control's register and, the read
\* through, stores the value of the register in the control and hands it back.
C21_VolatileReadsWhenPowered ==
  [][(last'.op = "g_volatile_ctrl") =>
       IF ~is_enabled
       THEN bus' = <<>> /\ ret' = 0 /\ ctrls' = ctrls
       ELSE /\ Len(bus') = 1
            /\ Fits(bus'[1], <<"R", VolatileReg(last'.id), VolatileLen(last'.id), 0, 0>>)
            /\ bus'[1][5] =>
                 /\ ret' = 0
                 /\ ctrls'[last'.id] = HwControl(hw, last'.id)
                 /\ out'.val = HwControl(hw, last'.id)]_vars

\* C21: a read-back of the gain on a powered sensor whose register holds 16.
C21_Witness ==
  /\ last.op = "g_volatile_ctrl" /\ last.id = "gain" /\ is_enabled
  /\ ret = 0 /\ Len(bus) = 1 /\ ctrls.gain = 16 /\ out.val = 16
  /\ HwControl(hw, "gain") = 16

\* C22: on a powered sensor under manual gain, a get_control(gain) that
\* follows a set_control(gain, v) returns v, for every v of the control's
\* range 0..GainMax (both calls succeed).
C22_GainRoundTrip ==
  [][(/\ last.op = "s_ctrl" /\ last.id = "gain" /\ ret = 0
      /\ is_enabled /\ ctrls.auto_gain = 0
      /\ last'.op = "g_volatile_ctrl" /\ last'.id = "gain" /\ ret' = 0)
     => /\ out'.val = last.a
        /\ ctrls'.gain = last.a]_vars

\* The largest gain has been set and read back.
C22_Witness ==
  /\ last.op = "g_volatile_ctrl" /\ last.id = "gain" /\ ret = 0
  /\ is_enabled /\ ctrls.auto_gain = 0
  /\ Len(bus) = 1 /\ bus[1][5]
  /\ out.val = GainMax
  /\ HwControl(hw, "gain") = GainMax

\* C23: on a powered sensor whose exposure control is manual, a
\* get_control(exposure) that follows set_control(exposure, 0x10) returns 1
\* (both calls succeed).
C23_ExposureRoundTrip ==
  [][(/\ last.op = "s_ctrl" /\ last.id = "exposure" /\ last.a = 16 /\ ret = 0
      /\ is_enabled /\ ctrls.auto_exp = V4L2_EXPOSURE_MANUAL
      /\ last'.op = "g_volatile_ctrl" /\ last'.id = "exposure" /\ ret' = 0)
     => out'.val = 1]_vars

\* The calls that play a table of the bridge or the panel, and the table.
DisplayPlays == {"bridge_enable", "panel_enable"}
TableOf(op) ==
  IF op = "bridge_enable" THEN display_table ELSE wuxga_display_table

\* The write transfers of the log b, in order, and the entries of a table
\* that are not delays.
WritesOf(b) == SelectSeq(b, LAMBDA e : e[1] = "W")
NonDelay(regs) == SelectSeq(regs, LAMBDA e : e[1] # DISPLAY_WAIT_MS)

\* C24: in a playback of the bridge's or the panel's table, a transfer of a
\* register write that fails is tried again, and the playback succeeds when
\* the retry goes through (one transfer fails at most).
C24_WriteRetriesFailedTransfer ==
  [][(last'.op \in DisplayPlays) =>
       \A i \in 1..Len(bus') :
         (bus'[i][1] = "W" /\ ~bus'[i][5]) =>
           /\ i < Len(bus')
           /\ bus'[i + 1] = [bus'[i] EXCEPT ![5] = TRUE]
           /\ out'.val = 0]_vars

\* C25: a register write of the bridge or the panel that succeeds is one
\* transfer on the bus: no transfer that went through is followed by the
\* same transfer (no table holds the same entry twice in a row).
C25_OneTransferPerWrite ==
  [][(last'.op \in DisplayPlays) =>
       \A i \in 1..Len(bus') :
         (bus'[i][1] = "W" /\ bus'[i][5] /\ i < Len(bus')) =>
           bus'[i + 1] # bus'[i]]_vars

\* C26: a playback of the bridge's or the panel's table puts no write to the
\* delay address on the bus, and sleeps once for each delay entry it passes,
\* for the entry's number of milliseconds.
C26_DelayEntryNotWritten ==
  [][(last'.op \in DisplayPlays) =>
       \A i \in 1..Len(bus') :
         /\ bus'[i][1] = "W" => bus'[i][2] # DISPLAY_WAIT_MS
         /\ bus'[i][1] = "msleep" => bus'[i][4] = 5]_vars

\* The writes w are the first entries of the table tbl, in order, each once,
\* none but the last failed; err is 0 exactly when every entry was written
\* and none failed.
InOrderOnce(w, tbl, err) ==
  /\ Len(w) <= Len(tbl)
  /\ \A i \in 1..Len(w) :
       /\ <<w[i][2], w[i][4]>> = tbl[i]
       /\ i < Len(w) => w[i][5]
  /\ (err = 0) <=> (Len(w) = Len(tbl) /\ w[Len(w)][5])

\* C27: a playback of the bridge's or the panel's table writes the entries in
\* the order of the table, each at most once, stops at the first write that
\* fails and returns its error, and with no failure writes every entry and
\* returns success.
C27_PlaybackInOrderOnce ==
  [][(last'.op \in DisplayPlays /\ Len(bus') > 0) =>
       InOrderOnce(WritesOf(bus'), NonDelay(TableOf(last'.op)), out'.val)]_vars

\* C28: a set_control one of whose register writes fails on the bus returns
\* an error.
C28_ControlWriteFailureSurfaces ==
  [][(/\ last'.op = "s_ctrl"
      /\ \E i \in 1..Len(bus') : bus'[i][1] = "W" /\ ~bus'[i][5])
     => ret' < 0]_vars

\* Bit `bit` of OV2710_REG_R_MANUAL in the registers h: the control it
\* belongs to is manual in the sensor.
ManualBit(h, bit) ==
  BitAnd(HwLoad(h, OV2710_REG_R_MANUAL, OV2710_REG_VALUE_8BIT), bit) = bit

\* C29: on a powered sensor, set_control(auto_exp, V4L2_EXPOSURE_MANUAL)
\* whose transfers go through leaves the manual-exposure bit set, and
\* set_control(auto_exp, V4L2_EXPOSURE_AUTO) leaves it clear and writes no
\* exposure value.
C29_ExposureAutoSwitch ==
  [][(/\ last'.op = "s_ctrl" /\ last'.id = "auto_exp" /\ is_enabled
      /\ ret' = 0 /\ \A i \in 1..Len(bus') : bus'[i][5])
     => IF last'.a = V4L2_EXPOSURE_MANUAL
        THEN ManualBit(hw', BIT(0))
        ELSE /\ ~ManualBit(hw', BIT(0))
             /\ \A i \in 1..Len(bus') :
                  bus'[i][2] # OV2710_REG_EXPOSURE_PK_HIGH]_vars

\* The argument `auto` that ov2710_s_ctrl hands to the set helper of the
\* cluster of control id, when the master control holds a after the set and
\* c are the controls before it.
HelperAuto(id, a, c) ==
  IF id = "auto_gain" \/ id = "auto_exp" THEN a # 0
  ELSE IF id = "gain" THEN c.auto_gain # 0
  ELSE c.auto_exp # 0

\* The write of the manual value v of control id.
ValueWrite(id, v) ==
  IF id = "gain"
  THEN <<"W", OV2710_REG_GAIN_PK, OV2710_REG_VALUE_16BIT, v>>
  ELSE <<"W", OV2710_REG_EXPOSURE_PK_HIGH, OV2710_REG_VALUE_24BIT, v * 16>>

\* The transfers b of a set helper called with auto for control id, value v,
\* and its result r: the read and the write of the switch of bit, then the
\* value write and nothing else if the value is new and auto is off, and
\* nothing else and success if not.
HelperTransfers(b, r, id, v, auto, bit) ==
  /\ Len(b) >= 1
  /\ Fits(b[1], ManualSwitch(bit, ~auto)[1])
  /\ (b[1][5] => Len(b) >= 2 /\ Fits(b[2], ManualSwitch(bit, ~auto)[2]))
  /\ IF ~auto /\ id \in {"gain", "exposure"} /\ b[1][5] /\ b[2][5]
     THEN Len(b) = 3 /\ <<b[3][1], b[3][2], b[3][3], b[3][4]>> = ValueWrite(id, v)
     ELSE Len(b) <= 2 /\ (b[1][5] /\ b[2][5] => r = 0)

\* C30: the set helper of a gain or exposure control, called on a powered
\* sensor, reads and writes the auto/manual bit; with auto off and the value
\* new it then writes the value register; with the value not new, or auto
\* on, it writes no value register and returns success.
C30_ValueWrittenOnlyWhenNew ==
  [][(/\ last'.op = "s_ctrl" /\ is_enabled
      /\ last'.id \in {"auto_gain", "gain", "auto_exp", "exposure"})
     => HelperTransfers(bus', ret', last'.id, last'.a,
                        HelperAuto(last'.id, last'.a, ctrls),
                        IF last'.id \in {"auto_gain", "gain"}
                        THEN BIT(1) ELSE BIT(0))]_vars

\* A set of the gain under manual gain has switched the bit and written
\* the new value.
C30_Witness ==
  /\ last.op = "s_ctrl" /\ last.id = "gain" /\ is_enabled
  /\ ctrls.auto_gain = 0 /\ ret = 0
  /\ Len(bus) = 3
  /\ bus[3] = <<"W", OV2710_REG_GAIN_PK, OV2710_REG_VALUE_16BIT, 16, TRUE>>

\* C35: a sensor that is marked streaming is powered.
C35_StreamingImpliesPowered == is_streaming => is_enabled

\* C36: s_power(1) on a sensor that is already powered switches no resource
\* and makes no transfer.
C36_PowerOnWhenPoweredIsNoOp ==
  [][(last'.op = "s_power" /\ last'.flag /\ is_enabled)
     => (pwr' = <<>> /\ bus' = <<>>)]_vars

\* C37: the write that ends a stream start that succeeded is a write to
\* OV2710_REG_STREAM_CTRL of a value with the sleep bit and the reset bit
\* clear, and the write that ends a stream stop is a write of the sleep bit
\* alone.
C37_StreamControlValues ==
  [][(/\ last'.op = "s_stream" /\ is_streaming # is_streaming'
      /\ ret' = 0 /\ Len(bus') > 0)
     => /\ bus'[Len(bus')][1] = "W"
        /\ bus'[Len(bus')][2] = OV2710_REG_STREAM_CTRL
        /\ IF last'.flag
           THEN /\ BitAnd(bus'[Len(bus')][4], OV2710_REG_STREAM_CTRL_SLEEP) = 0
                /\ BitAnd(bus'[Len(bus')][4], OV2710_REG_STREAM_CTRL_RESET) = 0
           ELSE bus'[Len(bus')][4] = OV2710_REG_STREAM_CTRL_SLEEP]_vars

\* The log of power switches holds the switch of gpio to value.
Switched(log, gpio, value) == \E i \in 1..Len(log) : log[i] = <<gpio, value>>

\* C39: an enable of the panel that sets enabled raises the two MIPI supply
\* GPIOs and makes the transfers of the playback of init_regs; a disable
\* that clears enabled lowers the two GPIOs.
C39_PanelEnablePlaysTable ==
  [][/\ (last'.op = "panel_enable" /\ ~panel.enabled /\ panel'.enabled) =>
          /\ Switched(pwr', "TEGRA_GPIO_PBB3", 1)
          /\ Switched(pwr', "TEGRA_GPIO_PC6", 1)
          /\ Len(WritesOf(bus')) > 0
     /\ (last'.op = "panel_disable" /\ panel.enabled /\ ~panel'.enabled) =>
          /\ Switched(pwr', "TEGRA_GPIO_PBB3", 0)
          /\ Switched(pwr', "TEGRA_GPIO_PC6", 0)]_vars

\* C40: an enable of the panel in which a write of the table fails returns
\* an error and leaves the panel not enabled.
C40_PanelEnableFailureSurfaces ==
  [][(/\ last'.op = "panel_enable" /\ ~panel.enabled
      /\ \E i \in 1..Len(bus') : bus'[i][1] = "W" /\ ~bus'[i][5])
     => (ret' < 0 /\ ~panel'.enabled)]_vars

\* C38: the index a flip control computes from the two format registers it
\* has just read lies inside the 4-entry bayer-order table.
C38_BayerIndexInTable ==
  [][(/\ last'.op = "s_ctrl" /\ last'.id \in {"vflip", "hflip"}
      /\ ret' = 0 /\ Len(bus') >= 2
      /\ bus'[Len(bus') - 1][2] = OV2710_REG_FORMAT1
      /\ bus'[Len(bus')][2] = OV2710_REG_FORMAT2)
     => hv_flip(bus'[Len(bus') - 1][4], bus'[Len(bus')][4])
          \in 0..(Len(ov2710_hv_flip_bayer_order) - 1)]_vars

\* Bit i of the number x.
BitOf(x, i) == (x \div 2 ^ i) % 2

\* The register a flip control modifies.
FlipReg(id) == IF id = "vflip" THEN OV2710_REG_FORMAT1 ELSE OV2710_REG_FORMAT2

\* C33: ov2710_mod_reg writes back the byte it read with the bits of the mask
\* replaced by those of val and every other bit as read; when the read fails
\* it writes nothing; disabling a flip clears bit 2 of the flip's format
\* register and keeps its other bits.
C33_ModRegTouchesMaskOnly ==
  [][/\ last'.op = "mod_reg" =>
          IF bus'[1][5]
          THEN /\ Len(bus') = 2
               /\ bus'[1] = <<"R", OV2710_REG_FORMAT1, OV2710_REG_VALUE_8BIT,
                              hw[OV2710_REG_FORMAT1], TRUE>>
               /\ bus'[2][1] = "W" /\ bus'[2][2] = OV2710_REG_FORMAT1
               /\ bus'[2][3] = OV2710_REG_VALUE_8BIT
               /\ bus'[2][4] \in 0..255
               /\ \A i \in 0..7 :
                    BitOf(bus'[2][4], i) =
                      IF BitOf(last'.a, i) = 1 THEN BitOf(last'.b, i)
                      ELSE BitOf(hw[OV2710_REG_FORMAT1], i)
               /\ hw'[OV2710_REG_FORMAT1] = bus'[2][4]
          ELSE Len(bus') = 1 /\ ret' < 0 /\ hw' = hw
     /\ (last'.op = "flip_disable" /\ ret' = 0) =>
          \A i \in 0..7 :
            BitOf(hw'[FlipReg(last'.id)], i) =
              IF i = 2 THEN 0 ELSE BitOf(hw[FlipReg(last'.id)], i)]_vars

C33_Witness ==
  /\ last.op = "mod_reg" /\ last.a = 15 /\ last.b = 175 /\ ret = 0
  /\ Len(bus) = 2 /\ bus[1][4] = 160 /\ bus[2][4] = 175

\* C34: a register write or read of more than 4 bytes returns -EINVAL and
\* makes no transfer.
C34_LongAccessRejected ==
  [][(last'.op \in {"write_reg", "read_reg"} /\ last'.a > 4)
     => (ret' = -EINVAL /\ bus' = <<>> /\ hw' = hw)]_vars

C34_Witness ==
  /\ last.op = "write_reg" /\ last.a = 5 /\ last.b = 74565
  /\ ret = -EINVAL /\ bus = <<>>

\* Steps of the ordered log: the soft-reset write, a sleep, a switch of a
\* resource.
IsSoftReset(e) ==
  e[1] = "W" /\ e[2] = OV2710_REG_STREAM_CTRL /\ e[3] = OV2710_REG_STREAM_CTRL_RESET

Settle(min, max) == <<"usleep_range", min, max, TRUE>>

Switch(resource, level) == <<resource, level, 0, TRUE>>

\* C32: a power-on that has enabled the regulators resets the sensor next.
\* Without a reset line it writes the soft reset once and then sleeps, and
\* switches no GPIO; with a reset line it asserts the line, sleeps, releases
\* the line and sleeps, and writes no soft reset. The clock is enabled only
\* after that.
C32_ResetBeforeClock ==
  [][(/\ \/ last'.op = "probe"
         \/ (last'.op = "s_power" /\ last'.flag /\ ~is_enabled)
      /\ Len(steps') > 0 /\ steps'[1] = Switch("supplies", 1))
     => IF reset_gpio = "absent"
        THEN /\ Len(steps') >= 2 /\ IsSoftReset(steps'[2])
             /\ Cardinality({i \in 1..Len(steps') : IsSoftReset(steps'[i])}) = 1
             /\ \A i \in 1..Len(steps') : steps'[i][1] # "reset_gpio"
             /\ IF steps'[2][4]
                THEN Len(steps') >= 3 /\ steps'[3] = Settle(1000, 2000)
                ELSE Len(steps') = 2
             /\ \A i \in 1..Len(steps') : steps'[i] = Switch("xvclk", 1) => i > 3
        ELSE /\ Len(steps') >= 5
             /\ steps'[2] = Switch("reset_gpio", 1)
             /\ steps'[3] = Settle(5000, 10000)
             /\ steps'[4] = Switch("reset_gpio", 0)
             /\ steps'[5] = Settle(5000, 10000)
             /\ \A i \in 1..Len(steps') : ~IsSoftReset(steps'[i])
             /\ \A i \in 1..Len(steps') : steps'[i] = Switch("xvclk", 1) => i > 5]_vars

C32_Witness ==
  /\ last.op = "s_power" /\ last.flag /\ ret = 0
  /\ reset_gpio = "low"
  /\ Len(steps) > 6
  /\ steps[1] = Switch("supplies", 1) /\ steps[6] = Switch("xvclk", 1)

\* C31: under fair scheduling the holder of sensor->lock releases it, a
\* caller that sleeps in mutex_lock gets the mutex, and an s_power call that
\* has started comes to its end.
C31_LockReleasedAndGranted ==
  /\ (lock # "free") ~> (lock = "free")
  /\ \A c \in LockCallers : (c \in waiters) ~> (Holder = c)
  /\ (power_pc # "idle") ~> (power_pc = "idle")

C31_Witness ==
  /\ lock = "s_stream_on"
  /\ waiters = {"set_fmt"}

====
